---- MODULE Spec2Model ----
(***************************************************************************)
(* PharmAI clinical decision support engine: name normalisation, the       *)
(* interaction pair index, dosage verification and the risk aggregator     *)
(* (backend/utils/normalizer.py, backend/services/interaction_checker.py,  *)
(* backend/services/dosage_engine.py, backend/services/risk_predictor.py). *)
(*                                                                         *)
(* Representation.                                                         *)
(*  - A string is a sequence of atoms.  An atom is one character, except   *)
(*    "tablet", which stands for the six letters of that formulation word. *)
(*  - An optional value (Python None) is a sequence of length <= 1.        *)
(*  - A Python dict is a record; a key that is absent is absent from the   *)
(*    record's DOMAIN.                                                     *)
(*  - A float is an exact rational <<numerator, denominator>>, den > 0.    *)
(***************************************************************************)
EXTENDS Integers, Sequences, FiniteSets, TLC

VARIABLES
    interactions_file,   \* data/processed/interactions.parquet as found on disk
    atc_ddd_file,        \* data/processed/atc_ddd.parquet as found on disk
    age_specific_file,   \* data/processed/age_specific.parquet as found on disk
    canonical_file,      \* data/processed/canonical_drugs.json as found on disk
    eml_file,            \* data/processed/eml.parquet as found on disk
    indian_medicines_file,   \* data/processed/indian_medicines.parquet
    medicine_details_file,   \* data/raw/Medicine_Details.csv
    interactions_df,     \* _interactions_df: <<>> is None, <<rows>> the cached table
    interactions_index,  \* _interactions_index: <<>> is None, <<dict>> the pair index
    atc_ddd_df,          \* _atc_ddd_df: <<>> is None, <<rows>> the cached table
    age_specific_df,     \* _age_specific_df: <<>> is None, <<rows>> the cached table
    canonical_map,       \* _canonical_map: <<>> is None, <<dict>> the cached map
    alternative_atc_df,  \* alternative_engine._atc_df (read from atc_ddd.parquet)
    eml_df,              \* alternative_engine._eml_df
    indian_df,           \* alternative_engine._indian_df
    medicine_details_df, \* alternative_engine._medicine_details_df
    last,                \* the last engine call made by the single-threaded caller
    pc,                  \* per worker thread: where it stands in check_interactions
    loc                  \* per worker thread: its local variables

vars == <<interactions_file, atc_ddd_file, age_specific_file, canonical_file,
          eml_file, indian_medicines_file, medicine_details_file,
          interactions_df, interactions_index, atc_ddd_df, age_specific_df,
          canonical_map, alternative_atc_df, eml_df, indian_df,
          medicine_details_df,
          last, pc, loc>>

files == <<interactions_file, atc_ddd_file, age_specific_file, canonical_file,
           eml_file, indian_medicines_file, medicine_details_file>>

\* The memoized tables of backend/services/alternative_engine.py
alternative_memo == <<alternative_atc_df, eml_df, indian_df, medicine_details_df>>

memo == <<interactions_df, interactions_index, atc_ddd_df, age_specific_df,
         canonical_map, alternative_memo>>

----------------------------------------------------------------------------
(* Bounds of the model *)

MaxMeds == 3
MaxRows == 2
MaxPrefix == 2
MaxPrescription == 3

----------------------------------------------------------------------------
(* Generic helpers *)

None == <<>>

Some(v) == <<v>>

SeqUpTo(S, n) == UNION {[1..k -> S] : k \in 0..n}

RECURSIVE SumSeq(_)
SumSeq(s) == IF s = <<>> THEN 0 ELSE Head(s) + SumSeq(Tail(s))

----------------------------------------------------------------------------
(* Strings as atom sequences: backend/utils/normalizer.py *)

Atoms == {" ", "5", "A", "a", "b", "g", "tablet"}

\* Code point order of the first character of each atom.
AtomRank(c) ==
    CASE c = " " -> 1
      [] c = "5" -> 2
      [] c = "A" -> 3
      [] c = "a" -> 4
      [] c = "b" -> 5
      [] c = "g" -> 6
      [] c = "tablet" -> 7

\* The digits and the words the texts given to the alternative engine add.
TextDigits == {"0", "1", "3", "5"}

TextWords ==
    {"aspirin", "Aspirin", "acetylsalicylic", "acid", "paracetamol", "warfarin",
     "ibuprofen", "clopidogrel", "metformin", "vitamin", "for", "pain",
     "headache", "fever", "heart", "clotrimazole"}

TextAtoms == Atoms \cup TextDigits \cup TextWords \cup {".", ",", "+", "mg", "MG"}

IsDigit(c) == c \in TextDigits

IsSpace(c) == c = " "

\* The unit alternation (mg|g|ml|mcg|iu|%|units?) restricted to the alphabet.
IsUnit(c) == c \in {"g", "mg"}

\* \w of the regular expression engine.
IsWordChar(c) == c \notin {" ", ".", ",", "+"}

IsFormulation(c) == c = "tablet"

Lower(c) ==
    CASE c = "A" -> "a"
      [] c = "MG" -> "mg"
      [] c = "Aspirin" -> "aspirin"
      [] OTHER -> c

LowerStr(s) == [i \in 1..Len(s) |-> Lower(s[i])]

\* str.__lt__ / sorted(): lexicographic by code point, a proper prefix first.
RECURSIVE StrLeq(_, _)
StrLeq(s, t) ==
    IF s = <<>> THEN TRUE
    ELSE IF t = <<>> THEN FALSE
    ELSE IF AtomRank(Head(s)) < AtomRank(Head(t)) THEN TRUE
    ELSE IF AtomRank(Head(s)) > AtomRank(Head(t)) THEN FALSE
    ELSE StrLeq(Tail(s), Tail(t))

\* tuple(sorted([a, b]))
SortedPair(a, b) == IF StrLeq(a, b) THEN <<a, b>> ELSE <<b, a>>

RECURSIVE SkipWhile(_, _, _)
\* first position >= i of s whose atom does not satisfy the class cls
SkipWhile(s, i, cls) ==
    IF i <= Len(s) /\ s[i] \in cls THEN SkipWhile(s, i + 1, cls) ELSE i

Digits == {c \in TextAtoms : IsDigit(c)}

Spaces == {c \in TextAtoms : IsSpace(c)}

\* End (inclusive) of a match of \d+\s*(unit) starting at i, or 0.
DoseMatchEnd(s, i) ==
    IF i > Len(s) \/ ~IsDigit(s[i]) THEN 0
    ELSE LET k == SkipWhile(s, SkipWhile(s, i, Digits), Spaces)
         IN  IF k <= Len(s) /\ IsUnit(s[k]) THEN k ELSE 0

RECURSIVE RemoveDoseFrom(_, _)
RemoveDoseFrom(s, i) ==
    IF i > Len(s) THEN <<>>
    ELSE LET e == DoseMatchEnd(s, i)
         IN  IF e > 0 THEN RemoveDoseFrom(s, e + 1)
             ELSE <<s[i]>> \o RemoveDoseFrom(s, i + 1)

\* re.sub(r'\d+\s*(mg|g|ml|mcg|iu|%|units?)', '', name)
RemoveDose(s) == RemoveDoseFrom(s, 1)

\* \b(tablet|...)\b at position i of s
FormulationAt(s, i) ==
    /\ IsFormulation(s[i])
    /\ (i = 1 \/ ~IsWordChar(s[i - 1]))
    /\ (i = Len(s) \/ ~IsWordChar(s[i + 1]))

\* re.sub(r'\b(tablet|capsule|...)\b', '', name)
RemoveFormulation(s) ==
    LET keep == [i \in 1..Len(s) |-> ~FormulationAt(s, i)]
        F[i \in 0..Len(s)] ==
            IF i = 0 THEN <<>>
            ELSE IF keep[i] THEN Append(F[i - 1], s[i]) ELSE F[i - 1]
    IN  F[Len(s)]

\* ' '.join(name.split())
CollapseSpaces(s) ==
    LET F[i \in 0..Len(s)] ==
            IF i = 0 THEN <<>>
            ELSE IF ~IsSpace(s[i]) THEN Append(F[i - 1], s[i])
            ELSE IF F[i - 1] = <<>> \/ IsSpace(F[i - 1][Len(F[i - 1])])
                 THEN F[i - 1]
            ELSE Append(F[i - 1], s[i])
        r == F[Len(s)]
    IN  IF r # <<>> /\ IsSpace(r[Len(r)]) THEN SubSeq(r, 1, Len(r) - 1) ELSE r

RECURSIVE LStrip(_)
LStrip(s) == IF s # <<>> /\ IsSpace(Head(s)) THEN LStrip(Tail(s)) ELSE s

RECURSIVE RStrip(_)
RStrip(s) ==
    IF s # <<>> /\ IsSpace(s[Len(s)]) THEN RStrip(SubSeq(s, 1, Len(s) - 1)) ELSE s

\* str.strip()
Strip(s) == RStrip(LStrip(s))

\* A name that is None.
NullName == <<"None">>

normalize_med_name(name) ==
    IF name = NullName \/ name = <<>> THEN <<>>
    ELSE CollapseSpaces(RemoveFormulation(RemoveDose(LowerStr(Strip(name)))))

----------------------------------------------------------------------------
(* The interaction table and its pair index:                               *)
(* backend/services/interaction_checker.py                                 *)

\* Raw medication names used as inputs and as table cells.
N_a == <<"a">>

N_b == <<"b">>

N_g == <<"g">>

N_A5g == <<"A", " ", "5", "g">>

N_btab == <<"b", " ", "tablet">>

N_dose == <<"5", "g">>

BaseCols == {"drug_a", "drug_b", "severity", "description"}

NormCols == {"drug_1_normalized", "drug_2_normalized"}

IRow(a, b, n1, n2, sev, desc) ==
    [drug_a |-> a, drug_b |-> b, drug_1_normalized |-> n1,
     drug_2_normalized |-> n2, severity |-> sev, description |-> desc]

\* Rows an interactions.parquet may hold.  'Mild' is a severity tag of
\* data/generate_datasets.py.
InteractionRows ==
    { IRow(N_a, N_b, N_a, N_b, "Major", "d1"),
      IRow(N_b, N_a, N_b, N_a, "Minor", "d2"),
      IRow(N_A5g, N_btab, N_a, N_b, "Moderate", "d3"),
      IRow(N_a, N_a, N_a, N_a, "Mild", "d4"),
      IRow(N_g, N_b, N_g, N_b, "Moderate", "d5"),
      IRow(<<"A">>, N_b, <<"A">>, N_b, "Major", "d6") }

DropNormCols(row) == [c \in BaseCols |-> row[c]]

AbsentFile == [exists |-> FALSE, columns |-> {}, rows |-> <<>>]

\* The files the table can be loaded from.
InteractionFiles ==
    {AbsentFile}
    \cup {[exists |-> TRUE, columns |-> BaseCols \cup NormCols, rows |-> r] :
            r \in SeqUpTo(InteractionRows, MaxRows)}
    \cup {[exists |-> TRUE, columns |-> BaseCols,
           rows |-> [i \in 1..Len(r) |-> DropNormCols(r[i])]] :
            r \in SeqUpTo(InteractionRows, MaxRows)}

\* lines 27-31: pd.read_parquet, then the normalized columns when missing
ReadInteractions(file) ==
    IF "drug_1_normalized" \notin file.columns
    THEN [i \in 1..Len(file.rows) |->
            IRow(file.rows[i].drug_a, file.rows[i].drug_b,
                 normalize_med_name(file.rows[i].drug_a),
                 normalize_med_name(file.rows[i].drug_b),
                 file.rows[i].severity, file.rows[i].description)]
    ELSE file.rows

\* _interactions_index[pair] = {...}: one dict store
DictPut(d, k, v) == [x \in (DOMAIN d) \cup {k} |-> IF x = k THEN v ELSE d[x]]

\* lines 37-41: the body of the index loop for one row
IndexRow(idx, row) ==
    DictPut(idx, SortedPair(row.drug_1_normalized, row.drug_2_normalized),
            [severity |-> row.severity, description |-> row.description])

RECURSIVE BuildIndexFrom(_, _, _)
BuildIndexFrom(rows, k, idx) ==
    IF k > Len(rows) THEN idx
    ELSE BuildIndexFrom(rows, k + 1, IndexRow(idx, rows[k]))

\* lines 34-41
BuildIndex(rows) == BuildIndexFrom(rows, 1, <<>>)

\* Variant: the else branch of lines 42-47 is missing, an absent file leaves
\* the globals unset
LoadInteractionsDbNoFallback(df, index, file) ==
    IF df # None THEN [df |-> df, index |-> index]
    ELSE IF file.exists
    THEN [df |-> Some(ReadInteractions(file)),
          index |-> Some(BuildIndex(ReadInteractions(file)))]
    ELSE [df |-> df, index |-> index]

\* load_interactions_db(): the memoized globals after the call; df is returned
LoadInteractionsDb(df, index, file) ==
    IF df # None THEN [df |-> df, index |-> index]
    ELSE IF file.exists
    THEN [df |-> Some(ReadInteractions(file)),
          index |-> Some(BuildIndex(ReadInteractions(file)))]
    ELSE [df |-> Some(<<>>), index |-> Some(<<>>)]

\* Variant: the pair is looked up as given, not sorted (line 129)
find_interaction_as_given(index, drug1_normalized, drug2_normalized) ==
    IF index = None THEN None
    ELSE LET pair == <<drug1_normalized, drug2_normalized>>
         IN  IF pair \in DOMAIN index[1] THEN Some(index[1][pair]) ELSE None

\* find_interaction(): None, or Some(the record of the sorted pair)
find_interaction(index, drug1_normalized, drug2_normalized) ==
    IF index = None THEN None
    ELSE LET pair == SortedPair(drug1_normalized, drug2_normalized)
         IN  IF pair \in DOMAIN index[1] THEN Some(index[1][pair]) ELSE None

get_recommendation(severity) ==
    CASE severity = "Major" -> "AVOID combination"
      [] severity = "Moderate" -> "USE WITH CAUTION"
      [] severity = "Minor" -> "Monitor patient"
      [] OTHER -> "Interaction severity unknown"

SeverityTags == {"Major", "Moderate", "Minor"}

\* lines 104-105
CountSeverity(counts, severity) ==
    IF severity \in DOMAIN counts
    THEN [counts EXCEPT ![severity] = @ + 1]
    ELSE counts

\* Variant: the issue carries the normalized names (lines 95-96)
PairFoundNormalized(acc, drug_1, drug_2, interaction, looked) ==
    [issues |-> Append(acc.issues,
        [drug_1 |-> normalize_med_name(drug_1),
         drug_2 |-> normalize_med_name(drug_2),
         severity |-> interaction.severity,
         description |-> interaction.description,
         recommendation |-> get_recommendation(interaction.severity)]),
     severity_counts |-> CountSeverity(acc.severity_counts, interaction.severity),
     lookups |-> looked]

\* lines 91-105: the issue appended for a found interaction
PairFound(acc, drug_1, drug_2, interaction, looked) ==
    [issues |-> Append(acc.issues,
        [drug_1 |-> drug_1, drug_2 |-> drug_2,
         severity |-> interaction.severity,
         description |-> interaction.description,
         recommendation |-> get_recommendation(interaction.severity)]),
     severity_counts |-> CountSeverity(acc.severity_counts, interaction.severity),
     lookups |-> looked]

\* lines 89-91: the outcome of one lookup
PairOutcome(acc, drug_1, drug_2, interaction, looked) ==
    IF interaction # None
    THEN PairFound(acc, drug_1, drug_2, interaction[1], looked)
    ELSE [acc EXCEPT !.lookups = looked]

\* lines 85-105: the body of the pair loop for positions i < j
PairStep(medications, normalized_meds, index, i, j, acc) ==
    PairOutcome(acc, medications[i], medications[j],
                find_interaction(index, normalized_meds[i], normalized_meds[j]),
                Append(acc.lookups, <<i, j>>))

\* lines 83-84: the loop variables and what the loop has gathered
Frame(i, j, acc) == [i |-> i, j |-> j, acc |-> acc]

\* lines 83-105: one turn of the loops: the inner range is exhausted and i
\* advances, or the pair (i, j) is looked up
LoopTurn(medications, normalized_meds, index, fr) ==
    IF fr.j > Len(medications)
    THEN Frame(fr.i + 1, fr.i + 2, fr.acc)
    ELSE Frame(fr.i, fr.j + 1,
               PairStep(medications, normalized_meds, index, fr.i, fr.j, fr.acc))

RECURSIVE RowLoop(_, _, _, _)
\* line 84: for j in range(i + 1, n), the turns that look up the pairs of
\* position fr.i
RowLoop(medications, normalized_meds, index, fr) ==
    IF fr.j > Len(medications) THEN fr
    ELSE RowLoop(medications, normalized_meds, index,
                 LoopTurn(medications, normalized_meds, index, fr))

RECURSIVE PairLoop(_, _, _, _)
\* lines 83-84: for i in range(n): for j in range(i + 1, n)
PairLoop(medications, normalized_meds, index, fr) ==
    IF fr.i > Len(medications) THEN fr.acc
    ELSE PairLoop(medications, normalized_meds, index,
                  LoopTurn(medications, normalized_meds, index,
                           RowLoop(medications, normalized_meds, index, fr)))

\* Variant: the early return reports ok = False (line 68)
EmptyResultNotOk ==
    [ok |-> FALSE, issues |-> <<>>, severity_summary |-> <<>>,
     total_interactions |-> 0]

\* lines 67-72
EmptyResult ==
    [ok |-> TRUE, issues |-> <<>>, severity_summary |-> <<>>,
     total_interactions |-> 0]

\* lines 107-112
LoopResult(acc) ==
    [ok |-> Len(acc.issues) = 0, issues |-> acc.issues,
     severity_summary |-> acc.severity_counts,
     total_interactions |-> Len(acc.issues)]

InitAcc ==
    [issues |-> <<>>, severity_counts |-> [t \in SeverityTags |-> 0],
     lookups |-> <<>>]

\* lines 76-112 once the table is loaded
CheckLoaded(ld, medications, acc) ==
    [df |-> ld.df, index |-> ld.index,
     result |-> LoopResult(acc), lookups |-> acc.lookups]

\* lines 74-112
CheckWith(ld, medications) ==
    CheckLoaded(ld, medications,
        PairLoop(medications,
                 [i \in 1..Len(medications) |-> normalize_med_name(medications[i])],
                 ld.index, Frame(1, 2, InitAcc)))

\* check_interactions(): the globals after the call, the result, the lookups made
check_interactions(df, index, file, medications) ==
    IF Len(medications) < 2
    THEN [df |-> df, index |-> index, result |-> EmptyResult, lookups |-> <<>>]
    ELSE CheckWith(LoadInteractionsDb(df, index, file), medications)

----------------------------------------------------------------------------
(* Exact rationals <<n, d>>, d > 0, for Python floats *)

R(n) == <<n, 1>>

Abs(n) == IF n < 0 THEN -n ELSE n

\* Euclid's algorithm; the remainder is bound as a value before the next step
RECURSIVE Gcd(_, _)
Gcd(a, b) ==
    IF b = 0 THEN a ELSE CHOOSE g \in {Gcd(b, r) : r \in {a % b}} : TRUE

\* n / d in lowest terms, for numbers n and d
Reduced(n, d) ==
    CHOOSE p \in {IF g = 0 THEN <<n, d>> ELSE <<n \div g, d \div g>> :
                     g \in {Gcd(Abs(n), Abs(d))}} : TRUE

\* The same rational in lowest terms
Lowest(n, d) == CHOOSE p \in {Reduced(x, y) : x \in {n}, y \in {d}} : TRUE

RMul(a, b) == Lowest(a[1] * b[1], a[2] * b[2])

RDiv(a, b) == Lowest(a[1] * b[2], a[2] * b[1])

RAdd(a, b) == Lowest(a[1] * b[2] + b[1] * a[2], a[2] * b[2])

RSub(a, b) == Lowest(a[1] * b[2] - b[1] * a[2], a[2] * b[2])

RLt(a, b) == a[1] * b[2] < b[1] * a[2]

RLe(a, b) == a[1] * b[2] <= b[1] * a[2]

RMax(a, b) == IF RLt(a, b) THEN b ELSE a

RMin(a, b) == IF RLt(b, a) THEN b ELSE a

\* floor of a rational, also when it is negative
RFloor(a) ==
    IF a[1] >= 0 THEN a[1] \div a[2] ELSE -((-a[1] + a[2] - 1) \div a[2])

\* The integers nearest to f + twice / 2, where 0 <= twice < 2.
Nearest(f, twice) ==
    IF RLt(twice, R(1)) THEN {f}
    ELSE IF RLt(R(1), twice) THEN {f + 1}
    ELSE {f, f + 1}

NearestOf(x, f) == Nearest(f, RSub(RMul(x, R(2)), R(2 * f)))

\* round(x, digits) with scale = 10^digits, as an integer count of 1/scale.
\* The nearest value; on an exact decimal tie the binary float lies just
\* above or just below it, so either neighbour can be the result.
RoundTo(a, scale) ==
    NearestOf(<<a[1] * scale, a[2]>>, RFloor(<<a[1] * scale, a[2]>>))

----------------------------------------------------------------------------
(* Dosage verification: backend/services/dosage_engine.py and              *)
(* normalize_dosage_unit of backend/utils/normalizer.py                    *)

DRow(name, ddd, unit, atc) ==
    [drug_name_normalized |-> name, ddd |-> ddd, unit |-> unit,
     atc_code |-> atc, route |-> "O"]

\* Rows an atc_ddd.parquet may hold ('IU' is a unit of data/generate_datasets.py).
DddRows ==
    { DRow(N_a, 2, "mg", "A01"),
      DRow(N_b, 1, "g", "B01"),
      DRow(N_b, 0, "mg", "B02"),
      DRow(N_b, 20, "IU", "B03") }

DddFiles ==
    {AbsentFile}
    \cup {[exists |-> TRUE, columns |-> {}, rows |-> r] :
            r \in SeqUpTo(DddRows, MaxRows)}

AgeRow(drug, group, pattern) ==
    [drug_normalized |-> drug, age_group |-> group, usage_pattern |-> pattern]

AgeSpecificFiles ==
    { AbsentFile,
      [exists |-> TRUE, columns |-> {},
       rows |-> <<AgeRow(N_a, "Geriatric", "usage a geriatric"),
                  AgeRow(N_b, "Adult", "usage b adult")>>] }

\* load_atc_ddd_db() and load_age_specific_db(): the memoized table after the call
\* Variant: a call that finds the table memoized takes its first row out of it.
LoadTableConsuming(df, file) ==
    IF df # None THEN (IF df[1] = <<>> THEN df ELSE Some(Tail(df[1])))
    ELSE IF file.exists THEN Some(file.rows)
    ELSE Some(<<>>)

\* Variant: the accessor reads the file on every call and ignores the memo
\* whenever the file exists.
LoadTableReread(df, file) ==
    IF file.exists THEN Some(file.rows)
    ELSE IF df # None THEN df
    ELSE Some(<<>>)

LoadTable(df, file) ==
    IF df # None THEN df
    ELSE IF file.exists THEN Some(file.rows)
    ELSE Some(<<>>)

categorize_age(age) ==
    IF age < 2 THEN "Infant"
    ELSE IF age < 12 THEN "Pediatric"
    ELSE IF age < 18 THEN "Adolescent"
    ELSE IF age < 65 THEN "Adult"
    ELSE "Geriatric"

\* match.iloc[0] of a boolean-mask selection: the first selected row, if any
FirstRow(rows, hits) ==
    IF hits = {} THEN None
    ELSE Some(rows[CHOOSE k \in hits : \A j \in hits : k <= j])

\* lines 146-153: the dict made of the matching row
DddOf(match) ==
    IF match # None
    THEN Some([ddd |-> match[1].ddd, unit |-> match[1].unit,
               atc_code |-> match[1].atc_code, route |-> match[1].route])
    ELSE None

\* lines 142-144: rows whose drug_name_normalized equals the normalized name
DddMatch(atc_db, med_normalized) ==
    FirstRow(atc_db, {k \in 1..Len(atc_db) :
                         atc_db[k].drug_name_normalized = med_normalized})

\* get_ddd() on the loaded table: None or Some(dict)
get_ddd(atc_db, medication) ==
    IF Len(atc_db) = 0 THEN None
    ELSE DddOf(DddMatch(atc_db, normalize_med_name(medication)))

get_default_age_adjustment(age_group) ==
    CASE age_group = "Infant" -> "Weight-based dosing required"
      [] age_group = "Pediatric" -> "Reduced dose based on weight/age"
      [] age_group = "Adolescent" -> "May require adult or pediatric dose"
      [] age_group = "Adult" -> "Standard adult dosing"
      [] age_group = "Geriatric" -> "Consider reduced dose"
      [] OTHER -> "Standard dosing"

\* lines 172-175: the usage pattern of the matching row, else the default
AgeAdjustmentOf(match, age_group) ==
    IF match # None THEN match[1].usage_pattern
    ELSE get_default_age_adjustment(age_group)

\* lines 167-170: rows of the drug and the age group
AgeMatch(age_db, med_normalized, age_group) ==
    FirstRow(age_db, {k \in 1..Len(age_db) :
                         /\ age_db[k].drug_normalized = med_normalized
                         /\ age_db[k].age_group = age_group})

\* get_age_adjustment() on the loaded table
get_age_adjustment(age_db, medication, age_group) ==
    IF Len(age_db) = 0 THEN get_default_age_adjustment(age_group)
    ELSE AgeAdjustmentOf(AgeMatch(age_db, normalize_med_name(medication), age_group),
                         age_group)

\* Unit strings a caller or a table may give.  "[A^][mu]g" stands for the
\* mis-encoded micro sign key of line 93, "[a^][mu]g" for its lower case.
UnitStrings == {"mg", "g", "mcg", "ug", "MG", "lb", "IU", "[A^][mu]g"}

\* str.lower()
LowerUnit(u) ==
    CASE u = "MG" -> "mg"
      [] u = "IU" -> "iu"
      [] u = "[A^][mu]g" -> "[a^][mu]g"
      [] OTHER -> u

\* Variant: the table without its last two keys (lines 92-93)
conversions_to_mg_without_ug ==
    [u \in {"mg", "g", "mcg"} |->
        CASE u = "mg" -> R(1)
          [] u = "g" -> R(1000)
          [] OTHER -> <<1, 1000>>]

\* conversions_to_mg, lines 88-94
conversions_to_mg ==
    [u \in {"mg", "g", "mcg", "ug", "[A^][mu]g"} |->
        CASE u = "mg" -> R(1)
          [] u = "g" -> R(1000)
          [] OTHER -> <<1, 1000>>]

\* normalize_dosage_unit(): value and unit are optional values (None allowed).
\* raised: AttributeError of None.lower(), TypeError of None * factor.
normalize_dosage_unit(value, unit, target_unit) ==
    IF unit = None \/ target_unit = None
    THEN [raised |-> TRUE, value |-> None]
    ELSE LET u == LowerUnit(unit[1])
             t == LowerUnit(target_unit[1])
         IN  IF u \in DOMAIN conversions_to_mg /\ t \in DOMAIN conversions_to_mg
             THEN IF value = None THEN [raised |-> TRUE, value |-> None]
                  ELSE [raised |-> FALSE,
                        value |-> Some(RDiv(RMul(R(value[1]), conversions_to_mg[u]),
                                            conversions_to_mg[t]))]
             ELSE [raised |-> FALSE, value |-> None]

\* lines 206-224: the plain band of the ratio
\* Variant: the upper limit of the safe band is exclusive.
RatioBandExclusive(dose_ratio) ==
    IF RLt(dose_ratio, <<1, 2>>)
    THEN [status |-> "low", message |-> "Dose is below 50% of standard DDD",
          recommendation |-> <<"Verify therapeutic efficacy">>]
    ELSE IF RLt(dose_ratio, <<3, 2>>)
    THEN [status |-> "safe", message |-> "Dose within acceptable range",
          recommendation |-> <<"Continue as prescribed">>]
    ELSE IF RLe(dose_ratio, R(2))
    THEN [status |-> "high", message |-> "Dose above standard DDD",
          recommendation |-> <<"Monitor for adverse effects">>]
    ELSE [status |-> "very_high", message |-> "Dose significantly above standard DDD",
          recommendation |-> <<"VERIFY PRESCRIPTION">>]

RatioBand(dose_ratio) ==
    IF RLt(dose_ratio, <<1, 2>>)
    THEN [status |-> "low", message |-> "Dose is below 50% of standard DDD",
          recommendation |-> <<"Verify therapeutic efficacy">>]
    ELSE IF RLe(dose_ratio, <<3, 2>>)
    THEN [status |-> "safe", message |-> "Dose within acceptable range",
          recommendation |-> <<"Continue as prescribed">>]
    ELSE IF RLe(dose_ratio, R(2))
    THEN [status |-> "high", message |-> "Dose above standard DDD",
          recommendation |-> <<"Monitor for adverse effects">>]
    ELSE [status |-> "very_high", message |-> "Dose significantly above standard DDD",
          recommendation |-> <<"VERIFY PRESCRIPTION">>]

\* Variant: a ratio of exactly 1.0 is escalated too.
AgeEscalationFromOne(dose_ratio, age_group, age_adjustment, band) ==
    IF age_group \in {"Pediatric", "Infant", "Geriatric"} /\ RLe(R(1), dose_ratio)
    THEN [status |-> IF RLt(<<3, 2>>, dose_ratio) THEN "very_high" ELSE "high",
          message |-> band.message,
          recommendation |-> <<"CAUTION", age_group>> \o band.recommendation
                             \o <<"Age adjustment", age_adjustment>>]
    ELSE band

\* lines 227-229: the escalation for the young and the old
AgeEscalation(dose_ratio, age_group, age_adjustment, band) ==
    IF age_group \in {"Pediatric", "Infant", "Geriatric"} /\ RLt(R(1), dose_ratio)
    THEN [status |-> IF RLt(<<3, 2>>, dose_ratio) THEN "very_high" ELSE "high",
          message |-> band.message,
          recommendation |-> <<"CAUTION", age_group>> \o band.recommendation
                             \o <<"Age adjustment", age_adjustment>>]
    ELSE band

\* verify_dosage_safety()
verify_dosage_safety(dose_ratio, age_group, age_adjustment, medication) ==
    AgeEscalation(dose_ratio, age_group, age_adjustment, RatioBand(dose_ratio))

\* Variant: an absent age defaults to 1.
PatientAgeDefaultOne(patient_info) ==
    IF "patient_age" \in DOMAIN patient_info THEN patient_info.patient_age ELSE 1

\* patient_info.get('patient_age', 0)
PatientAge(patient_info) ==
    IF "patient_age" \in DOMAIN patient_info THEN patient_info.patient_age ELSE 0

\* lines 76-82
\* Variant: the unknown result also carries a dose ratio and an age group.
UnknownResultWithRatio(medication, prescribed_dose, dose_unit) ==
    [status |-> "unknown", message |-> "No DDD data available",
     prescribed_dose |-> <<prescribed_dose, dose_unit>>,
     dose_ratio |-> 0, age_group |-> "Adult",
     recommendation |-> <<"Verify dosage with formulary or physician">>]

UnknownResult(medication, prescribed_dose, dose_unit) ==
    [status |-> "unknown", message |-> "No DDD data available",
     prescribed_dose |-> <<prescribed_dose, dose_unit>>,
     recommendation |-> <<"Verify dosage with formulary or physician">>]

\* lines 87-93
ErrorResult(prescribed_dose, dose_unit) ==
    [status |-> "error", message |-> "Cannot convert",
     prescribed_dose |-> <<prescribed_dose, dose_unit>>,
     recommendation |-> <<"Unit conversion failed">>]

\* line 98
DoseRatio(prescribed_normalized, ddd_value) ==
    IF ddd_value > 0 THEN RDiv(prescribed_normalized, R(ddd_value)) ELSE R(0)

Raised(atc, age) == [atc_df |-> atc, age_df |-> age, raised |-> TRUE, result |-> <<>>]

Returned(atc, age, res) ==
    [atc_df |-> atc, age_df |-> age, raised |-> FALSE, result |-> res]

\* lines 108-117: the result dict, dose_ratio rounded to q hundredths
DosageResult(prescribed_dose, dose_unit, ddd_info, age_group, age_adjustment, v, q) ==
    [status |-> v.status, message |-> v.message,
     prescribed_dose |-> <<prescribed_dose, dose_unit>>,
     ddd |-> <<ddd_info.ddd, ddd_info.unit>>,
     dose_ratio |-> q,
     age_group |-> age_group,
     age_adjustment |-> age_adjustment,
     recommendation |-> v.recommendation]

\* lines 104-117
VerifyAdjusted(atc, agedb, medication, prescribed_dose, dose_unit, ddd_info, age_group, dose_ratio, age_adjustment) ==
    {Returned(atc, agedb,
        DosageResult(prescribed_dose, dose_unit, ddd_info, age_group, age_adjustment,
            verify_dosage_safety(dose_ratio, age_group, age_adjustment, medication),
            q)) :
     q \in RoundTo(dose_ratio, 100)}

\* lines 101-117: load_age_specific_db() is made by get_age_adjustment()
VerifyRatio(atc, agedb, medication, prescribed_dose, dose_unit, ddd_info, age_group, dose_ratio) ==
    VerifyAdjusted(atc, agedb, medication, prescribed_dose, dose_unit, ddd_info,
                   age_group, dose_ratio,
                   get_age_adjustment(agedb[1], medication, age_group))

\* lines 87-117: the outcome of the unit conversion
VerifyConverted(atc, age_df, age_file, medication, prescribed_dose, dose_unit, ddd_info, age_group, conv) ==
    IF conv.raised THEN {Raised(atc, age_df)}
    ELSE IF conv.value = None
    THEN {Returned(atc, age_df, ErrorResult(prescribed_dose, dose_unit))}
    ELSE VerifyRatio(atc, LoadTable(age_df, age_file), medication, prescribed_dose,
                     dose_unit, ddd_info, age_group,
                     DoseRatio(conv.value[1], ddd_info.ddd))

\* lines 84-117: the call once a DDD record is found
VerifyWithDdd(atc, age_df, age_file, patient_info, medication, prescribed_dose, dose_unit, ddd_info) ==
    VerifyConverted(atc, age_df, age_file, medication, prescribed_dose, dose_unit,
                    ddd_info, categorize_age(PatientAge(patient_info)),
                    normalize_dosage_unit(prescribed_dose, dose_unit,
                                          Some(ddd_info.unit)))

\* lines 73-117: the call once the DDD lookup is made
DosageWithDdd(atc, age_df, age_file, patient_info, medication, prescribed_dose, dose_unit, ddd_info) ==
    IF ddd_info = None
    THEN {Returned(atc, age_df,
                   UnknownResult(medication, prescribed_dose, dose_unit))}
    ELSE VerifyWithDdd(atc, age_df, age_file, patient_info, medication,
                       prescribed_dose, dose_unit, ddd_info[1])

\* lines 73-117: load_atc_ddd_db() is made by get_ddd()
DosageLoaded(atc, age_df, age_file, patient_info, medication, prescribed_dose, dose_unit) ==
    DosageWithDdd(atc, age_df, age_file, patient_info, medication,
                  prescribed_dose, dose_unit, get_ddd(atc[1], medication))

\* Variant: the unit is checked before the DDD lookup (lines 73-93 reordered)
calculate_dosage_convert_first(atc_df, age_df, atc_file, age_file, patient_info, medication, prescribed_dose, dose_unit) ==
    IF dose_unit # None /\ LowerUnit(dose_unit[1]) \notin DOMAIN conversions_to_mg
    THEN {Returned(LoadTable(atc_df, atc_file), age_df,
                   ErrorResult(prescribed_dose, dose_unit))}
    ELSE DosageLoaded(LoadTable(atc_df, atc_file), age_df, age_file, patient_info,
                      medication, prescribed_dose, dose_unit)

\* calculate_dosage(): the possible outcomes (they differ in the rounding of
\* dose_ratio only), each with the memoized tables after the call.
\* dose_ratio is in hundredths.
calculate_dosage(atc_df, age_df, atc_file, age_file, patient_info, medication, prescribed_dose, dose_unit) ==
    DosageLoaded(LoadTable(atc_df, atc_file), age_df, age_file, patient_info,
                 medication, prescribed_dose, dose_unit)

----------------------------------------------------------------------------
(* Risk aggregation: backend/services/risk_predictor.py                    *)

\* severity_scores, lines 149-153
\* Variant: a Major interaction weighs nothing.
severity_scores_major_free == [t \in SeverityTags |->
    CASE t = "Major" -> 0 [] t = "Moderate" -> 40 [] OTHER -> 10]

severity_scores == [t \in SeverityTags |->
    CASE t = "Major" -> 80 [] t = "Moderate" -> 40 [] OTHER -> 10]

\* dict.get(key, default)
Get(d, k, default) == IF k \in DOMAIN d THEN d[k] ELSE default

RECURSIVE MaxSeverity(_, _, _)
\* lines 158-165: the highest severity seen, starting from max_severity
MaxSeverity(issues, k, max_severity) ==
    IF k > Len(issues) THEN max_severity
    ELSE MaxSeverity(issues, k + 1,
            IF Get(severity_scores, issues[k].severity, 0)
                 > Get(severity_scores, max_severity, 0)
            THEN issues[k].severity ELSE max_severity)

\* calculate_interaction_risk() given the result of check_interactions
InteractionRisk(n, interaction_result) ==
    IF n < 2
    THEN [score |-> R(0),
          details |-> [message |-> "Single medication - no interaction risk"]]
    ELSE IF interaction_result.ok
    THEN [score |-> R(0), details |-> [message |-> "No interactions detected"]]
    ELSE LET issues == interaction_result.issues
             total_score == SumSeq([k \in 1..Len(issues) |->
                                Get(severity_scores, issues[k].severity, 10)])
             max_severity == MaxSeverity(issues, 1, "Minor")
         IN  [score |-> RMin(<<total_score, Len(issues)>>, R(100)),
              details |-> [total_interactions |-> interaction_result.total_interactions,
                           max_severity |-> max_severity,
                           severity_summary |-> interaction_result.severity_summary,
                           message |-> <<interaction_result.total_interactions,
                                         max_severity>>]]

StatusTags == {"safe", "low", "high", "very_high", "unknown", "error"}

\* Variant: a very_high dose weighs 95.
status_scores_before_reduction == [t \in StatusTags |->
    CASE t = "safe" -> 0 [] t = "low" -> 10 [] t = "high" -> 40
      [] t = "very_high" -> 95 [] OTHER -> 5]

\* status_scores, lines 201-208
status_scores == [t \in StatusTags |->
    CASE t = "safe" -> 0 [] t = "low" -> 10 [] t = "high" -> 40
      [] t = "very_high" -> 75 [] OTHER -> 5]

\* lines 211-220: the score and, above 10, the issue of one medication
DosageAppend(st, name, out, status, score) ==
    [atc_df |-> out.atc_df, age_df |-> out.age_df, raised |-> FALSE,
     dosage_scores |-> Append(st.dosage_scores, score),
     issues |-> IF score > 10
                THEN Append(st.issues,
                       [medication |-> name, status |-> status,
                        message |-> Get(out.result, "message", ""),
                        score |-> score])
                ELSE st.issues]

\* lines 210-211
DosageScored(st, name, out, status) ==
    DosageAppend(st, name, out, status, Get(status_scores, status, 5))

\* lines 193-220: one medication, given the outcome of calculate_dosage
DosageStep(st, name, out) ==
    IF out.raised
    THEN [st EXCEPT !.raised = TRUE, !.atc_df = out.atc_df, !.age_df = out.age_df]
    ELSE DosageScored(st, name, out, Get(out.result, "status", "unknown"))

RECURSIVE DosageLoop(_, _, _, _, _, _)
\* lines 189-220: the loop over the medications; st carries the memoized
\* tables, the scores and the issues so far
DosageLoop(medications, patient_info, atc_file, age_file, k, st) ==
    IF k > Len(medications) \/ st.raised THEN st
    ELSE IF "dose" \notin DOMAIN medications[k] \/ "unit" \notin DOMAIN medications[k]
    THEN DosageLoop(medications, patient_info, atc_file, age_file, k + 1, st)
    ELSE DosageLoop(medications, patient_info, atc_file, age_file, k + 1,
            DosageStep(st, medications[k].name,
                CHOOSE o \in calculate_dosage(st.atc_df, st.age_df, atc_file,
                                 age_file, patient_info, medications[k].name,
                                 medications[k].dose, medications[k].unit) : TRUE))

\* lines 222-234: the average score and the details
DosageRiskOf(st) ==
    IF st.raised
    THEN [atc_df |-> st.atc_df, age_df |-> st.age_df, raised |-> TRUE,
          score |-> R(0), details |-> <<>>]
    ELSE IF st.dosage_scores = <<>>
    THEN [atc_df |-> st.atc_df, age_df |-> st.age_df, raised |-> FALSE,
          score |-> R(0), details |-> [message |-> "No dosage data available"]]
    ELSE [atc_df |-> st.atc_df, age_df |-> st.age_df, raised |-> FALSE,
          score |-> <<SumSeq(st.dosage_scores), Len(st.dosage_scores)>>,
          details |-> [medications_checked |-> Len(st.dosage_scores),
                       issues_found |-> Len(st.issues),
                       issues |-> st.issues,
                       message |-> IF st.issues # <<>>
                                   THEN "dosage issue(s) detected"
                                   ELSE "All dosages within range"]]

\* calculate_dosage_risk()
calculate_dosage_risk(atc_df, age_df, atc_file, age_file, medications, patient_info) ==
    IF medications = <<>>
    THEN [atc_df |-> atc_df, age_df |-> age_df, raised |-> FALSE,
          score |-> R(0), details |-> [message |-> "No medications to check"]]
    ELSE DosageRiskOf(DosageLoop(medications, patient_info, atc_file, age_file, 1,
              [atc_df |-> atc_df, age_df |-> age_df, raised |-> FALSE,
               dosage_scores |-> <<>>, issues |-> <<>>]))

\* Variant: each step starts one medication earlier.
CountStepExclusive(med_count) ==
    IF med_count < 1 THEN 0
    ELSE IF med_count < 4 THEN 5
    ELSE IF med_count < 6 THEN 25
    ELSE IF med_count < 8 THEN 50
    ELSE 70

\* lines 244-258: the step value of the medication count
CountStep(med_count) ==
    IF med_count <= 1 THEN 0
    ELSE IF med_count <= 4 THEN 5
    ELSE IF med_count <= 6 THEN 25
    ELSE IF med_count <= 8 THEN 50
    ELSE 70

\* calculate_polypharmacy_risk()
calculate_polypharmacy_risk(medications, patient_info) ==
    LET med_count == Len(medications)
        age == PatientAge(patient_info)
        s0 == R(CountStep(med_count))
        s1 == IF age > 65 THEN RMin(RMul(s0, <<115, 100>>), R(100)) ELSE s0
        s2 == IF age > 0 /\ age < 12 THEN RMin(RMul(s1, <<11, 10>>), R(100)) ELSE s1
    IN  [score |-> s2,
         details |-> [medication_count |-> med_count,
                      age_adjustment |-> (age > 65 \/ (age > 0 /\ age < 12)),
                      message |-> <<med_count, age > 65, age > 0 /\ age < 12>>]]

\* categorize_risk_level() of the unrounded safety score
categorize_risk_level(score) ==
    IF RLe(R(8), score) THEN "SAFE"
    ELSE IF RLe(R(6), score) THEN "LOW RISK"
    ELSE IF RLe(R(4), score) THEN "MODERATE RISK"
    ELSE IF RLe(R(2), score) THEN "HIGH RISK"
    ELSE "CRITICAL"

get_age_group(age) ==
    IF age < 2 THEN "Infant"
    ELSE IF age < 12 THEN "Pediatric"
    ELSE IF age < 18 THEN "Adolescent"
    ELSE IF age < 65 THEN "Adult"
    ELSE "Geriatric"

\* Variant: a very_high dose gets no recommendation.
DosageRecommendationsWithoutVeryHigh(dosage_issues) ==
    LET F[k \in 0..Len(dosage_issues)] ==
            IF k = 0 THEN <<>>
            ELSE IF dosage_issues[k].status = "high"
            THEN Append(F[k - 1], <<"Monitor for potential adverse effects",
                                    dosage_issues[k].medication>>)
            ELSE IF dosage_issues[k].status = "low"
            THEN Append(F[k - 1], <<"dose may be subtherapeutic",
                                    dosage_issues[k].medication>>)
            ELSE F[k - 1]
    IN  F[Len(dosage_issues)]

\* lines 332-340
DosageRecommendations(dosage_issues) ==
    LET F[k \in 0..Len(dosage_issues)] ==
            IF k = 0 THEN <<>>
            ELSE IF dosage_issues[k].status = "very_high"
            THEN Append(F[k - 1], <<"VERIFY dose is significantly high",
                                    dosage_issues[k].medication>>)
            ELSE IF dosage_issues[k].status = "high"
            THEN Append(F[k - 1], <<"Monitor for potential adverse effects",
                                    dosage_issues[k].medication>>)
            ELSE IF dosage_issues[k].status = "low"
            THEN Append(F[k - 1], <<"dose may be subtherapeutic",
                                    dosage_issues[k].medication>>)
            ELSE F[k - 1]
    IN  F[Len(dosage_issues)]

\* generate_recommendations()
generate_recommendations(interaction_details, dosage_details, polypharmacy_details, patient_info) ==
    LET max_severity == Get(interaction_details, "max_severity", "Unknown")
        r1 == IF Get(interaction_details, "total_interactions", 0) > 0
              THEN IF max_severity = "Major"
                   THEN << <<"URGENT: Major drug interaction detected">>,
                           <<"Consider alternative medications">> >>
                   ELSE IF max_severity = "Moderate"
                   THEN << <<"Moderate interactions present">> >>
                   ELSE << <<"Minor interactions detected">> >>
              ELSE <<>>
        r2 == DosageRecommendations(Get(dosage_details, "issues", <<>>))
        med_count == Get(polypharmacy_details, "medication_count", 0)
        r3 == IF med_count > 6 THEN << <<"High medication count", med_count>> >>
              ELSE IF med_count > 4 THEN << <<"Consider medication reconciliation">> >>
              ELSE <<>>
        age == PatientAge(patient_info)
        r4 == IF age > 65 THEN << <<"Geriatric patient">> >> ELSE <<>>
        r5 == IF age < 12 /\ age > 0 THEN << <<"Pediatric patient">> >> ELSE <<>>
        recommendations == r1 \o r2 \o r3 \o r4 \o r5
    IN  IF recommendations = <<>>
        THEN << <<"No major issues identified">> >>
        ELSE recommendations

\* Variant: the raw risk is neither divided by 10 nor clamped (lines 94-95)
SafetyScoreUnscaled(raw_risk) == RSub(R(10), raw_risk)

\* lines 94-95 (and 57-58): safety_score = max(0, min(10, 10 - raw_risk / 10))
SafetyScore(raw_risk) ==
    RMax(R(0), RMin(R(10), RSub(R(10), RDiv(raw_risk, R(10)))))

\* patient_context, lines 129-133
PatientContext(patient_info, n) ==
    [age |-> IF "patient_age" \in DOMAIN patient_info
             THEN Some(patient_info.patient_age) ELSE None,
     age_group |-> get_age_group(PatientAge(patient_info)),
     medication_count |-> n]

Factor(score10, details, weight) ==
    [score |-> score10, weight |-> weight, details |-> details]

\* The globals after a call of predict_risk, and what it gave
RiskOutcome(df, idx, atc, age, raised, res) ==
    [df |-> df, index |-> idx, atc_df |-> atc, age_df |-> age,
     raised |-> raised, result |-> res]

\* lines 56-75: the single-medication result
SingleRisk(m, d, patient_info, safety_score) ==
    IF d.raised
    THEN {RiskOutcome(m.df, m.index, d.atc_df, d.age_df, TRUE, <<>>)}
    ELSE {RiskOutcome(m.df, m.index, d.atc_df, d.age_df, FALSE,
            [risk_score |-> rs,
             risk_level |-> categorize_risk_level(safety_score),
             factors |->
               [interaction_risk |-> Factor(0,
                   [message |-> "No interactions (single medication)"], "60%"),
                dosage_risk |-> Factor(ds, d.details, "30%"),
                polypharmacy_risk |-> Factor(0,
                   [message |-> "No polypharmacy risk"], "10%")],
             recommendations |->
               generate_recommendations(<<>>, d.details, <<>>, patient_info),
             patient_context |-> PatientContext(patient_info, 1)]) :
          rs \in RoundTo(safety_score, 10),
          ds \in RoundTo(RDiv(d.score, R(10)), 10)}

\* Variant: the single-medication path takes the dosage risk at full weight.
SingleWithFullWeight(m, d, patient_info) ==
    SingleRisk(m, d, patient_info, SafetyScore(d.score))

\* lines 51-58: only the dosage risk applies to a single medication
SingleWith(m, d, patient_info) ==
    SingleRisk(m, d, patient_info, SafetyScore(RMul(d.score, <<3, 10>>)))

\* lines 97-134: the result of the general path
GeneralRisk(ci, i, d, p, n, patient_info, safety_score) ==
    IF d.raised
    THEN {RiskOutcome(ci.df, ci.index, d.atc_df, d.age_df, TRUE, <<>>)}
    ELSE {RiskOutcome(ci.df, ci.index, d.atc_df, d.age_df, FALSE,
            [risk_score |-> rs,
             risk_level |-> categorize_risk_level(safety_score),
             factors |->
               [interaction_risk |-> Factor(is, i.details, "60%"),
                dosage_risk |-> Factor(ds, d.details, "30%"),
                polypharmacy_risk |-> Factor(ps, p.details, "10%")],
             recommendations |->
               generate_recommendations(i.details, d.details, p.details,
                                        patient_info),
             patient_context |-> PatientContext(patient_info, n)]) :
          rs \in RoundTo(safety_score, 10),
          is \in RoundTo(RDiv(i.score, R(10)), 10),
          ds \in RoundTo(RDiv(d.score, R(10)), 10),
          ps \in RoundTo(RDiv(p.score, R(10)), 10)}

\* lines 85-95: the weighted sum and the safety score
GeneralWith(ci, i, d, p, n, patient_info) ==
    UNION {GeneralRisk(ci, i, d, p, n, patient_info, SafetyScore(raw_risk)) :
             raw_risk \in {RAdd(RAdd(RMul(i.score, <<6, 10>>), RMul(d.score, <<3, 10>>)),
                                RMul(p.score, <<1, 10>>))}}

\* lines 77-83: the three factors
GeneralFrom(m, f, ci, medications, patient_info) ==
    UNION {GeneralWith(c, InteractionRisk(Len(medications), c.result), d, p,
                       Len(medications), patient_info) :
             c \in {ci},
             d \in {calculate_dosage_risk(m.atc_df, m.age_df, f.atc, f.age,
                                          medications, patient_info)},
             p \in {calculate_polypharmacy_risk(medications, patient_info)}}

\* Variant: the DDD table is loaded before the medication list is tested.
predict_risk_loads_first(m, f, medications, patient_info) ==
    IF medications = <<>>
    THEN {RiskOutcome(m.df, m.index, LoadTable(m.atc_df, f.atc), m.age_df, FALSE,
            [risk_score |-> 100, risk_level |-> "SAFE", factors |-> <<>>,
             recommendations |-> << <<"No medications to analyze">> >>])}
    ELSE IF Len(medications) = 1
    THEN UNION {SingleWith(m, d, patient_info) :
                  d \in {calculate_dosage_risk(m.atc_df, m.age_df, f.atc, f.age,
                                               medications, patient_info)}}
    ELSE GeneralFrom(m, f,
            check_interactions(m.df, m.index, f.interactions,
                [k \in 1..Len(medications) |-> medications[k].name]),
            medications, patient_info)

\* predict_risk(): the possible outcomes (they differ in the rounding of the
\* scores only).  m holds the memoized tables, f the files; risk_score and
\* the factors' scores are in tenths.
predict_risk(m, f, medications, patient_info) ==
    IF medications = <<>>
    THEN {RiskOutcome(m.df, m.index, m.atc_df, m.age_df, FALSE,
            [risk_score |-> 100, risk_level |-> "SAFE", factors |-> <<>>,
             recommendations |-> << <<"No medications to analyze">> >>])}
    ELSE IF Len(medications) = 1
    THEN UNION {SingleWith(m, d, patient_info) :
                  d \in {calculate_dosage_risk(m.atc_df, m.age_df, f.atc, f.age,
                                               medications, patient_info)}}
    ELSE GeneralFrom(m, f,
            check_interactions(m.df, m.index, f.interactions,
                [k \in 1..Len(medications) |-> medications[k].name]),
            medications, patient_info)

----------------------------------------------------------------------------
(* Therapeutic intent and alternatives:                                    *)
(* backend/services/alternative_engine.py                                  *)

DigitValue(c) == CASE c = "0" -> 0 [] c = "1" -> 1 [] c = "3" -> 3 [] c = "5" -> 5

RECURSIVE NumberOf(_, _, _)
\* int() of the digits s[i..j]
NumberOf(s, i, j) ==
    IF j < i THEN 0 ELSE 10 * NumberOf(s, i, j - 1) + DigitValue(s[j])

RECURSIVE Pow10(_)
Pow10(n) == IF n = 0 THEN 1 ELSE 10 * Pow10(n - 1)

\* (?:\.\d+)? after the integer digits that end before position j: the
\* position after the fraction, or j when there is none
FractionEnd(s, j) ==
    IF j < Len(s) /\ s[j] = "." /\ IsDigit(s[j + 1])
    THEN SkipWhile(s, j + 1, Digits) ELSE j

\* A match of (\d+(?:\.\d+)?)\s*mg that starts at i: <<the number>>, or None
DoseAt(s, i) ==
    IF ~IsDigit(s[i]) THEN None
    ELSE LET j == SkipWhile(s, i, Digits)
             f == FractionEnd(s, j)
             k == SkipWhile(s, f, Spaces)
         IN  IF k <= Len(s) /\ Lower(s[k]) = "mg"
             THEN IF f = j THEN Some(R(NumberOf(s, i, j - 1)))
                  ELSE Some(<<NumberOf(s, i, j - 1) * Pow10(f - j - 1)
                                + NumberOf(s, j + 1, f - 1),
                              Pow10(f - j - 1)>>)
             ELSE None

\* extract_dose_from_text(): the first match of re.search, as a float
extract_dose_from_text(medication_text) ==
    LET hits == {i \in 1..Len(medication_text) : DoseAt(medication_text, i) # None}
    IN  IF hits = {} THEN None
        ELSE DoseAt(medication_text, CHOOSE i \in hits : \A h \in hits : i <= h)

\* The words of the model that hold another word as a substring.
Embedded ==
    {<<"headache", "ache">>, <<"clotrimazole", "clot">>}

\* word in text_lower
HasWord(text, word) ==
    \E i \in 1..Len(text) :
        Lower(text[i]) = word \/ <<Lower(text[i]), word>> \in Embedded

HasAny(text, words) == \E w \in words : HasWord(text, w)

\* extract_context_keywords()
extract_context_keywords(medication_text) ==
    (IF HasAny(medication_text, {"pain", "headache", "migraine", "toothache", "ache"})
     THEN <<"pain">> ELSE <<>>)
    \o (IF HasAny(medication_text, {"fever", "pyrexia"}) THEN <<"fever">> ELSE <<>>)
    \o (IF HasAny(medication_text, {"inflammation", "inflammatory"})
        THEN <<"inflammation">> ELSE <<>>)
    \o (IF HasAny(medication_text,
                  {"heart", "stroke", "clot", "antiplatelet", "cardiovascular"})
        THEN <<"cardiovascular">> ELSE <<>>)

\* ATC codes and prefixes are sequences of code fragments: B01AC06 is
\* <<"B01A", "C", "06">>, so that str.startswith is the prefix order.
Intent(intent, prefixes) == [intent |-> intent, prefixes |-> prefixes]

Antiplatelet == Intent("antiplatelet", << <<"B01A", "C">> >>)

Analgesic ==
    Intent("analgesic/antipyretic",
           << <<"N02B", "A">>, <<"N02B", "E">>, <<"M01A">> >>)

InList(x, list) == \E k \in 1..Len(list) : list[k] = x

\* lines 192-209: aspirin by dose, then by context
AspirinIntent(dose_mg, context_keywords) ==
    IF dose_mg # None /\ RLe(dose_mg[1], R(150)) THEN Antiplatelet
    ELSE IF dose_mg # None /\ RLe(R(300), dose_mg[1]) THEN Analgesic
    ELSE IF InList("pain", context_keywords) \/ InList("fever", context_keywords)
    THEN Analgesic
    ELSE IF InList("cardiovascular", context_keywords) THEN Antiplatelet
    ELSE Antiplatelet

\* lines 211-242: the rules of the other drug families, in order
FamilyRules ==
    << [words |-> {"paracetamol", "acetaminophen", "crocin", "dolo"},
        gives |-> Intent("analgesic/antipyretic", << <<"N02B", "E">> >>)],
       [words |-> {"ibuprofen", "diclofenac", "naproxen", "indomethacin"},
        gives |-> Intent("analgesic/anti-inflammatory", << <<"M01A">> >>)],
       [words |-> {"clopidogrel", "prasugrel", "ticagrelor", "plavix"},
        gives |-> Intent("antiplatelet", << <<"B01A", "C">> >>)],
       [words |-> {"warfarin", "heparin", "rivaroxaban", "apixaban"},
        gives |-> Intent("anticoagulant", << <<"B01A">> >>)],
       [words |-> {"amlodipine", "nifedipine"},
        gives |-> Intent("calcium_channel_blocker", << <<"C08CA">> >>)],
       [words |-> {"atenolol", "metoprolol", "propranolol"},
        gives |-> Intent("beta_blocker", << <<"C07AB">> >>)],
       [words |-> {"enalapril", "lisinopril", "ramipril"},
        gives |-> Intent("ace_inhibitor", << <<"C09AA">> >>)],
       [words |-> {"metformin"},
        gives |-> Intent("biguanide", << <<"A10BA">> >>)],
       [words |-> {"glipizide", "glyburide", "glimepiride"},
        gives |-> Intent("sulfonylurea", << <<"A10BB">> >>)] >>

RECURSIVE FamilyIntent(_, _)
FamilyIntent(medication_name, k) ==
    IF k > Len(FamilyRules) THEN Intent("unknown", <<>>)
    ELSE IF HasAny(medication_name, FamilyRules[k].words) THEN FamilyRules[k].gives
    ELSE FamilyIntent(medication_name, k + 1)

\* Variant: the rules of the other drug families are tried before aspirin.
determine_therapeutic_intent_aspirin_last(medication_name, dose_mg, context_keywords) ==
    IF FamilyIntent(medication_name, 1).intent # "unknown"
    THEN FamilyIntent(medication_name, 1)
    ELSE IF HasAny(medication_name, {"aspirin", "acetylsalicylic"})
    THEN AspirinIntent(dose_mg, context_keywords)
    ELSE Intent("unknown", <<>>)

\* determine_therapeutic_intent()
determine_therapeutic_intent(medication_name, dose_mg, context_keywords) ==
    IF HasAny(medication_name, {"aspirin", "acetylsalicylic"})
    THEN AspirinIntent(dose_mg, context_keywords)
    ELSE FamilyIntent(medication_name, 1)

\* Rows of atc_ddd.parquet, eml.parquet and Medicine_Details.csv
AtcRow(drug_name, atc_code) ==
    [drug_name |-> drug_name, drug_name_normalized |-> normalize_med_name(drug_name),
     atc_code |-> atc_code, ddd |-> 2, unit |-> "mg", route |-> "O"]

EmlRow(medicine, atc_code) ==
    [medicine |-> medicine, atc_code |-> atc_code, category |-> "c",
     medicine_normalized |-> normalize_med_name(medicine)]

DetailsRow(name, composition) == [Medicine_Name |-> name, Composition |-> composition]

\* str.startswith(prefix)
StartsWith(code, prefix) ==
    Len(prefix) <= Len(code) /\ SubSeq(code, 1, Len(prefix)) = prefix

Alternative(name, atc_code, source, reason, priority) ==
    [name |-> name, atc_code |-> atc_code, source |-> source, reason |-> reason,
     priority |-> priority]

\* lines 299-313: the rows of the ATC table under one prefix
AtcPass(alternatives, atc_db, prefix, exclude_norm) ==
    LET F[k \in 0..Len(atc_db)] ==
            IF k = 0 THEN alternatives
            ELSE IF /\ StartsWith(atc_db[k].atc_code, prefix)
                    /\ normalize_med_name(atc_db[k].drug_name) # exclude_norm
                 THEN Append(F[k - 1],
                        Alternative(atc_db[k].drug_name, Some(atc_db[k].atc_code),
                                    "ATC Database",
                                    <<"Same therapeutic class", prefix>>, 1))
                 ELSE F[k - 1]
    IN  F[Len(atc_db)]

\* line 328: any(normalize_med_name(alt['name']) == med_norm for alt in ...)
AlreadyAdded(alternatives, med_norm) ==
    \E a \in 1..Len(alternatives) :
        normalize_med_name(alternatives[a].name) = med_norm

\* lines 316-337: the rows of the essential medicines list under one prefix
EmlPass(alternatives, eml_db, prefix, exclude_norm) ==
    LET F[k \in 0..Len(eml_db)] ==
            IF k = 0 THEN alternatives
            ELSE IF /\ StartsWith(eml_db[k].atc_code, prefix)
                    /\ normalize_med_name(eml_db[k].medicine) # exclude_norm
                    /\ ~AlreadyAdded(F[k - 1], normalize_med_name(eml_db[k].medicine))
                 THEN Append(F[k - 1],
                        Alternative(eml_db[k].medicine, Some(eml_db[k].atc_code),
                                    "WHO Essential Medicines List",
                                    <<"WHO recommended alternative", prefix>>, 2))
                 ELSE F[k - 1]
    IN  F[Len(eml_db)]

\* find_alternatives_by_atc_level4(), the tables being loaded
find_alternatives_by_atc_level4(atc_db, eml_db, target_atc_prefixes, exclude_drug) ==
    LET exclude_norm == normalize_med_name(exclude_drug)
        F[p \in 0..Len(target_atc_prefixes)] ==
            IF p = 0 THEN <<>>
            ELSE CHOOSE added \in
                   {EmlPass(from_atc, eml_db, target_atc_prefixes[p], exclude_norm) :
                      from_atc \in
                        {AtcPass(before, atc_db, target_atc_prefixes[p], exclude_norm) :
                           before \in {F[p - 1]}}} : TRUE
    IN  F[Len(target_atc_prefixes)]

\* len() of an atom
CharCount(c) ==
    CASE c \in {"mg", "MG"} -> 2
      [] c = "for" -> 3
      [] c \in {"acid", "pain"} -> 4
      [] c \in {"fever", "heart"} -> 5
      [] c = "tablet" -> 6
      [] c \in {"aspirin", "Aspirin", "vitamin"} -> 7
      [] c \in {"warfarin", "headache"} -> 8
      [] c \in {"ibuprofen", "metformin"} -> 9
      [] c \in {"paracetamol", "clopidogrel"} -> 11
      [] c = "clotrimazole" -> 12
      [] c = "acetylsalicylic" -> 15
      [] OTHER -> 1

\* len() of a string
StrLen(s) == SumSeq([i \in 1..Len(s) |-> CharCount(s[i])])

\* re.split(r'\d|,|\+', text)[0]
BeforeSplit(text) ==
    LET cuts == {i \in 1..Len(text) : IsDigit(text[i]) \/ text[i] \in {",", "+"}}
    IN  IF cuts = {} THEN text
        ELSE SubSeq(text, 1, (CHOOSE i \in cuts : \A c \in cuts : i <= c) - 1)

\* str.contains(part, case=False) for a part without regular expression signs
ContainsText(text, part) ==
    \E i \in 0..(Len(text) - Len(part)) :
        LowerStr(SubSeq(text, i + 1, i + Len(part))) = LowerStr(part)

\* lines 366-391: the medicines whose composition holds the ingredient
IngredientMatches(med_details, med_norm, ingredient) ==
    LET F[k \in 0..Len(med_details)] ==
            IF k = 0 THEN <<>>
            ELSE IF /\ ContainsText(med_details[k].Composition, ingredient)
                    /\ normalize_med_name(med_details[k].Medicine_Name) # med_norm
                 THEN Append(F[k - 1],
                        Alternative(med_details[k].Medicine_Name, None,
                                    "Same Active Ingredient",
                                    <<"Contains", ingredient>>, 0))
                 ELSE F[k - 1]
    IN  F[Len(med_details)]

\* lines 366-371: the ingredient of the original medicine
IngredientOf(original) == Strip(BeforeSplit(LowerStr(original.Composition)))

\* find_same_ingredient_alternatives(), the table being loaded
find_same_ingredient_alternatives(med_details, medication_name) ==
    IF Len(med_details) = 0 THEN <<>>
    ELSE IF ~({"Medicine_Name", "Composition"} \subseteq DOMAIN med_details[1])
    THEN <<>>
    ELSE LET med_norm == normalize_med_name(medication_name)
             original == FirstRow(med_details,
                            {k \in 1..Len(med_details) :
                                normalize_med_name(med_details[k].Medicine_Name)
                                  = med_norm})
         IN  IF original = None THEN <<>>
             ELSE IF StrLen(IngredientOf(original[1])) > 3
             THEN IngredientMatches(med_details, med_norm, IngredientOf(original[1]))
             ELSE <<>>

\* lines 443-451: the first alternative of every normalized name
Deduplicate(all_alternatives) ==
    LET F[k \in 0..Len(all_alternatives)] ==
            IF k = 0 THEN <<>>
            ELSE IF AlreadyAdded(F[k - 1], normalize_med_name(all_alternatives[k].name))
                 THEN F[k - 1]
                 ELSE Append(F[k - 1], all_alternatives[k])
    IN  F[Len(all_alternatives)]

WithPriority(alternatives, p) ==
    LET F[k \in 0..Len(alternatives)] ==
            IF k = 0 THEN <<>>
            ELSE IF alternatives[k].priority = p THEN Append(F[k - 1], alternatives[k])
            ELSE F[k - 1]
    IN  F[Len(alternatives)]

\* list.sort(key=priority): stable, the priorities being 0, 1 and 2
SortByPriority(alternatives) ==
    WithPriority(alternatives, 0) \o WithPriority(alternatives, 1)
        \o WithPriority(alternatives, 2)

\* unique_alternatives[:max_results]: a negative bound counts from the end
Limit(alternatives, max_results) ==
    IF max_results >= Len(alternatives) THEN alternatives
    ELSE IF max_results >= 0 THEN SubSeq(alternatives, 1, max_results)
    ELSE SubSeq(alternatives, 1, Len(alternatives) + max_results)

\* dose_text if dose_text else medication_name
SearchText(medication_name, dose_text) ==
    IF dose_text = None \/ dose_text = Some(<<>>) THEN medication_name
    ELSE dose_text[1]

\* The intent of a request, lines 417-425
IntentOf(medication_name, search_text) ==
    determine_therapeutic_intent(medication_name,
                                 extract_dose_from_text(search_text),
                                 extract_context_keywords(search_text))

\* The globals of the alternative engine after a call, and what it gave
AlternativesOutcome(atc, eml, indian, details, res) ==
    [atc_df |-> atc, eml_df |-> eml, indian_df |-> indian, details_df |-> details,
     result |-> res]

\* lines 427-457 once the intent is known and the details table loaded
SuggestWith(m, f, medication_name, target_atc_prefixes, details, indian, max_results) ==
    IF target_atc_prefixes = <<>>
    THEN AlternativesOutcome(m.atc_df, m.eml_df, indian, details,
            Limit(SortByPriority(Deduplicate(
                find_same_ingredient_alternatives(details[1], medication_name))),
                max_results))
    ELSE AlternativesOutcome(LoadTable(m.atc_df, f.atc), LoadTable(m.eml_df, f.eml),
            indian, details,
            Limit(SortByPriority(Deduplicate(
                find_same_ingredient_alternatives(details[1], medication_name)
                \o find_alternatives_by_atc_level4(
                       LoadTable(m.atc_df, f.atc)[1], LoadTable(m.eml_df, f.eml)[1],
                       target_atc_prefixes, medication_name))),
                max_results))

\* suggest_alternatives(): m holds the memoized tables, f the files
suggest_alternatives(m, f, medication_name, dose_text, max_results) ==
    SuggestWith(m, f, medication_name,
        IntentOf(medication_name, SearchText(medication_name, dose_text)).prefixes,
        LoadTable(m.details_df, f.details), LoadTable(m.indian_df, f.indian),
        max_results)

\* lines 485-496: the parts of the explanation; a dose of 0.0 is left out
Explanation(intent, dose_mg, context_keywords) ==
    [intent |-> intent.intent,
     dose |-> IF dose_mg # None /\ dose_mg[1][1] # 0 THEN dose_mg ELSE None,
     classes |-> intent.prefixes,
     context |-> context_keywords]

\* lines 498-505: the dict get_alternatives_with_details() returns
Details(medication_name, search_text, alternatives) ==
    [medication |-> medication_name,
     dose |-> extract_dose_from_text(search_text),
     therapeutic_intent |-> IntentOf(medication_name, search_text).intent,
     target_atc_codes |-> IntentOf(medication_name, search_text).prefixes,
     alternatives |-> alternatives,
     explanation |-> Explanation(IntentOf(medication_name, search_text),
                                 extract_dose_from_text(search_text),
                                 extract_context_keywords(search_text))]

\* get_alternatives_with_details()
get_alternatives_with_details(m, f, medication_name, dose_text) ==
    [suggest_alternatives(m, f, medication_name, dose_text, 5) EXCEPT
        !.result = Details(medication_name,
                           SearchText(medication_name, dose_text), @)]

----------------------------------------------------------------------------
(* Inputs of the engine calls *)

\* Medication names a caller passes: "a" and "A 5g" share the key "a",
\* "b tablet" has the key "b", "5g" has the empty key.
RawNames == {N_a, N_A5g, N_btab, N_dose}

\* Normalized names used as direct queries of the index.
Keys == {<<>>, N_a, N_b, N_g}

PInfo(age) == [patient_age |-> age, patient_weight_kg |-> 70]

DosagePatientInfos ==
    {[patient_weight_kg |-> 70]} \cup {PInfo(a) : a \in {5, 12, 30, 70}}

DosageNames == {N_A5g, N_btab, N_dose}

\* prescribed_dose: a number, or None
Doses == {None} \cup {Some(v) : v \in {0, 1, 2, 3, 4, 5, 3000}}

\* dose_unit: a string, or None
Units == {None} \cup {Some(u) : u \in UnitStrings}

Threads == {1, 2}

\* The locals of a thread that is not inside check_interactions
IdleLoc == [medications |-> <<>>, rows |-> <<>>, k |-> 0, i |-> 0, j |-> 0,
            normalized_meds |-> <<>>, acc |-> InitAcc, result |-> <<>>]

NoCall == [op |-> "none", args |-> <<>>, outcome |-> "none", result |-> <<>>,
           lookups |-> <<>>]

Call(op, args, outcome, result) ==
    [op |-> op, args |-> args, outcome |-> outcome, result |-> result,
     lookups |-> <<>>]

\* Module import: nothing is loaded yet (lines 14-15, dosage_engine.py 15-16).
\* The files only backend/services/alternative_engine.py reads are absent.
NoAlternativeFiles ==
    /\ eml_file = AbsentFile
    /\ indian_medicines_file = AbsentFile
    /\ medicine_details_file = AbsentFile

InitMemo ==
    /\ interactions_df = None
    /\ interactions_index = None
    /\ atc_ddd_df = None
    /\ age_specific_df = None
    /\ canonical_map = None
    /\ alternative_atc_df = None
    /\ eml_df = None
    /\ indian_df = None
    /\ medicine_details_df = None
    /\ last = NoCall
    /\ pc = [t \in Threads |-> "idle"]
    /\ loc = [t \in Threads |-> IdleLoc]

----------------------------------------------------------------------------
(* The engine calls of a single-threaded caller, one action per call *)

\* The caller takes the result of its last call; its next call can start.
TakeResult ==
    /\ last # NoCall
    /\ last' = NoCall
    /\ UNCHANGED <<files, memo, pc, loc>>

LoadInteractionsDbCall ==
    /\ last = NoCall
    /\ \E ld \in {LoadInteractionsDb(interactions_df, interactions_index,
                                     interactions_file)} :
           /\ interactions_df' = ld.df
           /\ interactions_index' = ld.index
           /\ last' = Call("load_interactions_db", <<>>, "returned", ld.df)
           /\ UNCHANGED <<files, canonical_map, alternative_memo, atc_ddd_df, age_specific_df, pc, loc>>

FindInteraction(a, b) ==
    /\ last = NoCall
    /\ last' = Call("find_interaction", [drug1 |-> a, drug2 |-> b], "returned",
                    find_interaction(interactions_index, a, b))
    /\ UNCHANGED <<files, memo, pc, loc>>

CheckInteractions(medications) ==
    /\ last = NoCall
    /\ \E c \in {check_interactions(interactions_df, interactions_index,
                                    interactions_file, medications)} :
           /\ interactions_df' = c.df
           /\ interactions_index' = c.index
           /\ last' = [Call("check_interactions", [medications |-> medications],
                            "returned", c.result) EXCEPT !.lookups = c.lookups]
           /\ UNCHANGED <<files, canonical_map, alternative_memo, atc_ddd_df, age_specific_df, pc, loc>>

LoadAtcDddDbCall ==
    /\ last = NoCall
    /\ atc_ddd_df' = LoadTable(atc_ddd_df, atc_ddd_file)
    /\ last' = Call("load_atc_ddd_db", <<>>, "returned", atc_ddd_df')
    /\ UNCHANGED <<files, canonical_map, alternative_memo, interactions_df, interactions_index, age_specific_df,
                   pc, loc>>

CalculateDosage(patient_info, medication, prescribed_dose, dose_unit) ==
    /\ last = NoCall
    /\ \E o \in calculate_dosage(atc_ddd_df, age_specific_df, atc_ddd_file,
                              age_specific_file, patient_info, medication,
                              prescribed_dose, dose_unit) :
        /\ atc_ddd_df' = o.atc_df
        /\ age_specific_df' = o.age_df
        /\ last' = Call("calculate_dosage",
                        [patient_info |-> patient_info, medication |-> medication,
                         prescribed_dose |-> prescribed_dose,
                         dose_unit |-> dose_unit],
                        IF o.raised THEN "raised" ELSE "returned", o.result)
        /\ UNCHANGED <<files, canonical_map, alternative_memo, interactions_df, interactions_index, pc, loc>>

PredictRisk(medications, patient_info) ==
    /\ last = NoCall
    /\ \E o \in predict_risk(
                [df |-> interactions_df, index |-> interactions_index,
                 atc_df |-> atc_ddd_df, age_df |-> age_specific_df],
                [interactions |-> interactions_file, atc |-> atc_ddd_file,
                 age |-> age_specific_file],
                medications, patient_info) :
        /\ interactions_df' = o.df
        /\ interactions_index' = o.index
        /\ atc_ddd_df' = o.atc_df
        /\ age_specific_df' = o.age_df
        /\ last' = Call("predict_risk",
                        [medications |-> medications, patient_info |-> patient_info],
                        IF o.raised THEN "raised" ELSE "returned", o.result)
        /\ UNCHANGED <<files, canonical_map, alternative_memo, pc, loc>>

----------------------------------------------------------------------------
(* SpecInteract: the interaction checker over every bounded table *)

InitInteract ==
    /\ interactions_file \in InteractionFiles
    /\ atc_ddd_file = AbsentFile
    /\ age_specific_file = AbsentFile
    /\ canonical_file = AbsentFile
    /\ NoAlternativeFiles
    /\ InitMemo

NextInteract ==
    \/ TakeResult
    \/ LoadInteractionsDbCall
    \/ \E a \in Keys, b \in Keys : FindInteraction(a, b)
    \/ \E medications \in SeqUpTo(RawNames, MaxMeds) : CheckInteractions(medications)

SpecInteract == InitInteract /\ [][NextInteract]_vars

----------------------------------------------------------------------------
(* SpecDosage: the dosage verifier over every bounded DDD table *)

InitDosage ==
    /\ interactions_file = AbsentFile
    /\ atc_ddd_file \in DddFiles
    /\ age_specific_file \in AgeSpecificFiles
    /\ canonical_file = AbsentFile
    /\ NoAlternativeFiles
    /\ InitMemo

NextDosage ==
    \/ TakeResult
    \/ LoadAtcDddDbCall
    \/ \E patient_info \in DosagePatientInfos, medication \in DosageNames,
          prescribed_dose \in Doses, dose_unit \in Units :
          CalculateDosage(patient_info, medication, prescribed_dose, dose_unit)

SpecDosage == InitDosage /\ [][NextDosage]_vars

----------------------------------------------------------------------------
(* Spec: the whole engine (interaction checker, dosage verifier and risk    *)
(* aggregator) over a table that is present or absent                      *)

EngineInteractionFiles ==
    { AbsentFile,
      [exists |-> TRUE, columns |-> BaseCols \cup NormCols,
       rows |-> <<IRow(N_a, N_b, N_a, N_b, "Major", "d1"),
                  IRow(N_g, N_a, N_g, N_a, "Minor", "d2"),
                  IRow(N_g, N_b, N_g, N_b, "Mild", "d3")>>] }

EngineDddFiles ==
    { AbsentFile,
      [exists |-> TRUE, columns |-> {},
       rows |-> <<DRow(N_a, 2, "mg", "A01"), DRow(N_b, 1, "g", "B01")>>] }

\* Medication dicts of a risk request: with dose and unit, with a dose that
\* is None (the default of models/schemas.py line 9), without the keys.
Med(name, dose, unit) == [name |-> name, dose |-> dose, unit |-> unit]

RiskMeds ==
    { Med(N_a, Some(2), Some("mg")),
      Med(N_A5g, Some(5), Some("mg")),
      Med(N_btab, Some(3), Some("lb")),
      Med(N_btab, None, Some("mg")),
      Med(N_g, Some(1), None) }

\* A medication without dose data, which interacts with nothing
Filler == [name |-> N_dose]

\* How many Fillers follow the medications of RiskMeds: with 0..MaxPrefix
\* medications before them the counts fall in every band of lines 244-258.
PadCounts == {0, 3, 5, 7}

\* Medication lists: up to MaxPrefix medications of RiskMeds, then Fillers
RiskInputs ==
    {p \o [k \in 1..n |-> Filler] : p \in SeqUpTo(RiskMeds, MaxPrefix), n \in PadCounts}

RiskPatientInfos ==
    {[patient_weight_kg |-> 70]} \cup {PInfo(a) : a \in {5, 30, 70}}

Init ==
    /\ interactions_file \in EngineInteractionFiles
    /\ atc_ddd_file \in EngineDddFiles
    /\ age_specific_file \in AgeSpecificFiles
    /\ canonical_file = AbsentFile
    /\ NoAlternativeFiles
    /\ InitMemo

Next ==
    \/ TakeResult
    \/ LoadInteractionsDbCall
    \/ LoadAtcDddDbCall
    \/ \E medications \in SeqUpTo(RawNames, MaxMeds) : CheckInteractions(medications)
    \/ \E patient_info \in RiskPatientInfos, medication \in DosageNames,
          prescribed_dose \in {None, Some(2), Some(5)},
          dose_unit \in {None, Some("mg"), Some("lb")} :
          CalculateDosage(patient_info, medication, prescribed_dose, dose_unit)
    \/ \E medications \in RiskInputs, patient_info \in RiskPatientInfos :
          PredictRisk(medications, patient_info)

Spec == Init /\ [][Next]_vars

----------------------------------------------------------------------------
(* Concurrent callers of check_interactions: the request handlers of       *)
(* backend/routers are plain functions, which the server runs on a thread  *)
(* pool.  pc[t] is the line thread t is about to run in                    *)
(* interaction_checker.py, loc[t] its local variables.  The globals        *)
(* _interactions_df and _interactions_index are shared and unlocked.       *)

OtherVars == <<files, atc_ddd_df, age_specific_df, canonical_map, alternative_memo,
               last>>

\* line 66: a caller enters check_interactions
EnterCheck(t, medications) ==
    /\ pc[t] = "idle"
    /\ IF Len(medications) < 2
       THEN /\ pc' = [pc EXCEPT ![t] = "done"]
            /\ loc' = [loc EXCEPT ![t] =
                          [IdleLoc EXCEPT !.medications = medications,
                                          !.result = EmptyResult]]
       ELSE /\ pc' = [pc EXCEPT ![t] = "L22"]
            /\ loc' = [loc EXCEPT ![t] = [IdleLoc EXCEPT !.medications = medications]]
    /\ UNCHANGED <<interactions_df, interactions_index, OtherVars>>

\* line 22: if _interactions_df is not None: return _interactions_df
TestLoaded(t) ==
    /\ pc[t] = "L22"
    /\ pc' = [pc EXCEPT ![t] = IF interactions_df # None THEN "L77" ELSE "L25"]
    /\ UNCHANGED <<interactions_df, interactions_index, loc, OtherVars>>

\* line 25: if INTERACTIONS_FILE.exists()
TestExists(t) ==
    /\ pc[t] = "L25"
    /\ pc' = [pc EXCEPT ![t] = IF interactions_file.exists THEN "L27" ELSE "L43"]
    /\ UNCHANGED <<interactions_df, interactions_index, loc, OtherVars>>

\* lines 27-31: _interactions_df = pd.read_parquet(...), pre-normalized
ReadTable(t) ==
    /\ pc[t] = "L27"
    /\ interactions_df' = Some(ReadInteractions(interactions_file))
    /\ pc' = [pc EXCEPT ![t] = "L34"]
    /\ UNCHANGED <<interactions_index, loc, OtherVars>>

\* lines 34-35: _interactions_index = {}; the row iterator is created
NewIndex(t) ==
    /\ pc[t] = "L34"
    /\ interactions_index' = Some(<<>>)
    /\ loc' = [loc EXCEPT ![t].rows = interactions_df[1], ![t].k = 1]
    /\ pc' = [pc EXCEPT ![t] = "L35"]
    /\ UNCHANGED <<interactions_df, OtherVars>>

\* lines 35-41: one row is stored in the global index, or the loop ends
\* and load_interactions_db returns (line 49)
StoreRow(t) ==
    /\ pc[t] = "L35"
    /\ IF loc[t].k > Len(loc[t].rows)
       THEN /\ pc' = [pc EXCEPT ![t] = "L77"]
            /\ UNCHANGED <<interactions_index, loc>>
       ELSE /\ interactions_index' =
                   Some(IndexRow(interactions_index[1], loc[t].rows[loc[t].k]))
            /\ loc' = [loc EXCEPT ![t].k = @ + 1]
            /\ UNCHANGED pc
    /\ UNCHANGED <<interactions_df, OtherVars>>

\* lines 43-46: _interactions_df = pd.DataFrame(columns=[...])
EmptyDf(t) ==
    /\ pc[t] = "L43"
    /\ interactions_df' = Some(<<>>)
    /\ pc' = [pc EXCEPT ![t] = "L47"]
    /\ UNCHANGED <<interactions_index, loc, OtherVars>>

\* lines 47-49: _interactions_index = {}; return
EmptyIndex(t) ==
    /\ pc[t] = "L47"
    /\ interactions_index' = Some(<<>>)
    /\ pc' = [pc EXCEPT ![t] = "L77"]
    /\ UNCHANGED <<interactions_df, loc, OtherVars>>

\* lines 77-80
NormalizeMeds(t) ==
    /\ pc[t] = "L77"
    /\ loc' = [loc EXCEPT ![t].normalized_meds =
                              [k \in 1..Len(loc[t].medications) |->
                                  normalize_med_name(loc[t].medications[k])],
                          ![t].i = 1, ![t].j = 2, ![t].acc = InitAcc]
    /\ pc' = [pc EXCEPT ![t] = "L83"]
    /\ UNCHANGED <<interactions_df, interactions_index, OtherVars>>

\* lines 83-105: one turn of the pair loop; find_interaction reads the
\* global index as it is at that moment
LookupPair(t) ==
    /\ pc[t] = "L83"
    /\ IF loc[t].i > Len(loc[t].medications)
       THEN /\ pc' = [pc EXCEPT ![t] = "L107"]
            /\ UNCHANGED loc
       ELSE /\ \E fr \in {LoopTurn(loc[t].medications, loc[t].normalized_meds,
                                    interactions_index,
                                    Frame(loc[t].i, loc[t].j, loc[t].acc))} :
                  loc' = [loc EXCEPT ![t].i = fr.i, ![t].j = fr.j, ![t].acc = fr.acc]
            /\ UNCHANGED pc
    /\ UNCHANGED <<interactions_df, interactions_index, OtherVars>>

\* lines 107-112
ReturnResult(t) ==
    /\ pc[t] = "L107"
    /\ loc' = [loc EXCEPT ![t].result = LoopResult(loc[t].acc)]
    /\ pc' = [pc EXCEPT ![t] = "done"]
    /\ UNCHANGED <<interactions_df, interactions_index, OtherVars>>

\* The caller takes the result; the thread serves the next request
TakeReturn(t) ==
    /\ pc[t] = "done"
    /\ pc' = [pc EXCEPT ![t] = "idle"]
    /\ loc' = [loc EXCEPT ![t] = IdleLoc]
    /\ UNCHANGED <<interactions_df, interactions_index, OtherVars>>

\* interactions.parquet as data/preprocess_datasets.py writes it (with the
\* normalized columns), or absent
RaceFiles ==
    { AbsentFile,
      [exists |-> TRUE, columns |-> BaseCols \cup NormCols,
       rows |-> <<IRow(N_a, N_b, N_a, N_b, "Major", "d1"),
                  IRow(N_g, N_a, N_g, N_a, "Minor", "d2")>>] }

RaceMeds == SeqUpTo({N_a, N_btab, N_g}, 2) \cup {<<N_a, N_btab, N_g>>}

InitRace ==
    /\ interactions_file \in RaceFiles
    /\ atc_ddd_file = AbsentFile
    /\ age_specific_file = AbsentFile
    /\ canonical_file = AbsentFile
    /\ NoAlternativeFiles
    /\ InitMemo

NextRace ==
    \E t \in Threads :
        \/ \E medications \in RaceMeds : EnterCheck(t, medications)
        \/ TestLoaded(t)
        \/ TestExists(t)
        \/ ReadTable(t)
        \/ NewIndex(t)
        \/ StoreRow(t)
        \/ EmptyDf(t)
        \/ EmptyIndex(t)
        \/ NormalizeMeds(t)
        \/ LookupPair(t)
        \/ ReturnResult(t)
        \/ TakeReturn(t)

SpecRace == InitRace /\ [][NextRace]_vars

----------------------------------------------------------------------------
(* SpecMemo: the memoized tables of one process while the preprocessing    *)
(* script backend/data/preprocess_datasets.py writes the files the tables  *)
(* are loaded from.  A call of the engine is atomic for its single-threaded *)
(* caller, so the script's writes fall between two calls.                  *)

\* normalizer.py lines 16-29: the canonical map, {} when the file is absent
load_canonical_map(map, file) ==
    IF map # None THEN map
    ELSE IF file.exists THEN Some(file.rows)
    ELSE Some(<<>>)

\* canonical_drugs.json: normalized name -> entry, synonyms share the entry
CanonicalEntry(name) == [id |-> "DB1", normalized |-> name, synonyms |-> <<N_g>>]

CanonicalFiles ==
    { AbsentFile,
      [exists |-> TRUE, columns |-> {},
       rows |-> [k \in {N_a, N_g} |-> CanonicalEntry(N_a)]] }

\* The versions of atc_ddd.parquet the preprocessing script may write
WrittenDddFiles ==
    (EngineDddFiles \ {AbsentFile})
    \cup {[exists |-> TRUE, columns |-> {}, rows |-> <<DRow(N_a, 5, "mg", "A01")>>]}

LoadAgeSpecificDbCall ==
    /\ last = NoCall
    /\ age_specific_df' = LoadTable(age_specific_df, age_specific_file)
    /\ last' = Call("load_age_specific_db", <<>>, "returned", age_specific_df')
    /\ UNCHANGED <<files, canonical_map, alternative_memo, interactions_df, interactions_index,
                   atc_ddd_df, pc, loc>>

LoadCanonicalMapCall ==
    /\ last = NoCall
    /\ canonical_map' = load_canonical_map(canonical_map, canonical_file)
    /\ last' = Call("load_canonical_map", <<>>, "returned", canonical_map')
    /\ UNCHANGED <<files, interactions_df, interactions_index, atc_ddd_df,
                   age_specific_df, alternative_memo, pc, loc>>

\* preprocess_datasets.py line 67-68: canonical_drugs.json is written
BuildCanonicalVocabulary ==
    /\ last = NoCall
    /\ \E f \in CanonicalFiles \ {AbsentFile, canonical_file} : canonical_file' = f
    /\ UNCHANGED <<interactions_file, atc_ddd_file, age_specific_file, eml_file,
                   indian_medicines_file, medicine_details_file, memo,
                   last, pc, loc>>

\* preprocess_datasets.py line 95: interactions.parquet is written
ProcessInteractions ==
    /\ last = NoCall
    /\ \E f \in EngineInteractionFiles \ {AbsentFile, interactions_file} :
           interactions_file' = f
    /\ UNCHANGED <<atc_ddd_file, age_specific_file, canonical_file, eml_file,
                   indian_medicines_file, medicine_details_file, memo,
                   last, pc, loc>>

\* preprocess_datasets.py line 113: atc_ddd.parquet is written
ProcessAtcDdd ==
    /\ last = NoCall
    /\ \E f \in WrittenDddFiles \ {atc_ddd_file} : atc_ddd_file' = f
    /\ UNCHANGED <<interactions_file, age_specific_file, canonical_file, eml_file,
                   indian_medicines_file, medicine_details_file, memo,
                   last, pc, loc>>

\* preprocess_datasets.py line 175: age_specific.parquet is written
ProcessAgeData ==
    /\ last = NoCall
    /\ \E f \in AgeSpecificFiles \ {AbsentFile, age_specific_file} :
           age_specific_file' = f
    /\ UNCHANGED <<interactions_file, atc_ddd_file, canonical_file, eml_file,
                   indian_medicines_file, medicine_details_file, memo,
                   last, pc, loc>>

MemoMeds == {<<N_a, N_A5g>>, <<N_a, N_btab>>}

MemoRiskInputs == {<<Med(N_a, Some(2), Some("mg")), Med(N_btab, Some(5), Some("mg"))>>}

InitMemoized ==
    /\ interactions_file \in EngineInteractionFiles
    /\ atc_ddd_file \in EngineDddFiles
    /\ age_specific_file \in AgeSpecificFiles
    /\ canonical_file \in CanonicalFiles
    /\ NoAlternativeFiles
    /\ InitMemo

NextMemo ==
    \/ TakeResult
    \/ LoadInteractionsDbCall
    \/ LoadAtcDddDbCall
    \/ LoadAgeSpecificDbCall
    \/ LoadCanonicalMapCall
    \/ \E medications \in MemoMeds : CheckInteractions(medications)
    \/ \E medication \in {N_A5g, N_btab} :
          CalculateDosage(PInfo(70), medication, Some(2), Some("mg"))
    \/ \E medications \in MemoRiskInputs : PredictRisk(medications, PInfo(70))
    \/ BuildCanonicalVocabulary
    \/ ProcessInteractions
    \/ ProcessAtcDdd
    \/ ProcessAgeData

SpecMemo == InitMemoized /\ [][NextMemo]_vars

----------------------------------------------------------------------------
(* SpecNormalize: normalize_med_name over every bounded name, applied to a *)
(* raw name or to the key a previous application returned                  *)

MaxName == 5

NameInputs == {NullName} \cup SeqUpTo(Atoms, MaxName)

NormalizeMedName(name) ==
    /\ last = NoCall \/ last.op = "normalize_med_name"
    /\ last' = Call("normalize_med_name", [name |-> name], "returned",
                    normalize_med_name(name))
    /\ UNCHANGED <<files, memo, pc, loc>>

\* The caller normalizes the key it has just obtained.
NormalizeAgain ==
    /\ last.op = "normalize_med_name"
    /\ NormalizeMedName(last.result)

InitNormalize ==
    /\ interactions_file = AbsentFile
    /\ atc_ddd_file = AbsentFile
    /\ age_specific_file = AbsentFile
    /\ canonical_file = AbsentFile
    /\ NoAlternativeFiles
    /\ InitMemo

NextNormalize ==
    \/ TakeResult
    \/ \E name \in NameInputs : last = NoCall /\ NormalizeMedName(name)
    \/ NormalizeAgain

SpecNormalize == InitNormalize /\ [][NextNormalize]_vars

----------------------------------------------------------------------------
(* SpecEmptyKey: names without a normalized key against tables in which    *)
(* preprocess_datasets.py has stored a row under the empty key (a raw drug *)
(* name that is missing or made of a dose token only, lines 19-31)         *)

EmptyKeyInteractionRows ==
    { IRow(N_dose, N_a, <<>>, N_a, "Major", "d7"),
      IRow(N_dose, N_dose, <<>>, <<>>, "Minor", "d8"),
      IRow(N_a, N_b, N_a, N_b, "Moderate", "d9") }

EmptyKeyInteractionFiles ==
    {AbsentFile}
    \cup {[exists |-> TRUE, columns |-> BaseCols \cup NormCols, rows |-> r] :
            r \in SeqUpTo(EmptyKeyInteractionRows, MaxRows)}
    \cup {[exists |-> TRUE, columns |-> BaseCols,
           rows |-> [i \in 1..Len(r) |-> DropNormCols(r[i])]] :
            r \in SeqUpTo(EmptyKeyInteractionRows, MaxRows)}

EmptyKeyDddFiles ==
    {AbsentFile}
    \cup {[exists |-> TRUE, columns |-> {}, rows |-> r] :
            r \in SeqUpTo({DRow(<<>>, 2, "mg", "Z01"), DRow(N_a, 2, "mg", "A01")},
                          MaxRows)}

EmptyKeyNames == {<<>>, N_dose, <<"tablet">>, N_a, N_btab}

InitEmptyKey ==
    /\ interactions_file \in EmptyKeyInteractionFiles
    /\ atc_ddd_file \in EmptyKeyDddFiles
    /\ age_specific_file = AbsentFile
    /\ canonical_file = AbsentFile
    /\ NoAlternativeFiles
    /\ InitMemo

NextEmptyKey ==
    \/ TakeResult
    \/ \E medications \in SeqUpTo(EmptyKeyNames, MaxMeds) :
          CheckInteractions(medications)
    \/ \E medication \in EmptyKeyNames \cup {NullName} :
          CalculateDosage(PInfo(30), medication, Some(2), Some("mg"))

SpecEmptyKey == InitEmptyKey /\ [][NextEmptyKey]_vars

----------------------------------------------------------------------------
(* SpecAlternatives: the alternative engine over request texts made of a    *)
(* medication name, a dose and a reason, as backend/routers/alternatives.py *)
(* builds them, and over tables that are present or absent                  *)

\* The globals and the files of backend/services/alternative_engine.py
AlternativeMemo ==
    [atc_df |-> alternative_atc_df, eml_df |-> eml_df, indian_df |-> indian_df,
     details_df |-> medicine_details_df]

AlternativeFiles ==
    [atc |-> atc_ddd_file, eml |-> eml_file, indian |-> indian_medicines_file,
     details |-> medicine_details_file]

SuggestAlternatives(medication_name, dose_text, max_results) ==
    /\ last = NoCall
    /\ \E o \in {suggest_alternatives(AlternativeMemo, AlternativeFiles,
                                      medication_name, dose_text, max_results)} :
        /\ alternative_atc_df' = o.atc_df
        /\ eml_df' = o.eml_df
        /\ indian_df' = o.indian_df
        /\ medicine_details_df' = o.details_df
        /\ last' = Call("suggest_alternatives",
                        [medication_name |-> medication_name,
                         dose_text |-> dose_text, max_results |-> max_results],
                        "returned", o.result)
        /\ UNCHANGED <<files, canonical_map, interactions_df, interactions_index,
                       atc_ddd_df, age_specific_df, pc, loc>>

GetAlternativesWithDetails(medication_name, dose_text) ==
    /\ last = NoCall
    /\ \E o \in {get_alternatives_with_details(AlternativeMemo, AlternativeFiles,
                                               medication_name, dose_text)} :
        /\ alternative_atc_df' = o.atc_df
        /\ eml_df' = o.eml_df
        /\ indian_df' = o.indian_df
        /\ medicine_details_df' = o.details_df
        /\ last' = Call("get_alternatives_with_details",
                        [medication_name |-> medication_name,
                         dose_text |-> dose_text],
                        "returned", o.result)
        /\ UNCHANGED <<files, canonical_map, interactions_df, interactions_index,
                       atc_ddd_df, age_specific_df, pc, loc>>

B01AC06 == <<"B01A", "C", "06">>

B01AC04 == <<"B01A", "C", "04">>

B01AA03 == <<"B01A", "A", "03">>

N02BE01 == <<"N02B", "E", "01">>

M01AE01 == <<"M01A", "E", "01">>

AlternativeAtcFiles ==
    { AbsentFile,
      [exists |-> TRUE, columns |-> {},
       rows |-> <<AtcRow(<<"aspirin">>, B01AC06),
                  AtcRow(<<"clopidogrel">>, B01AC04),
                  AtcRow(<<"warfarin">>, B01AA03),
                  AtcRow(<<"paracetamol">>, N02BE01),
                  AtcRow(<<"ibuprofen">>, M01AE01)>>] }

\* eml.parquet: a medicine is listed under the code of the list's section,
\* which need not be the code atc_ddd.parquet gives it (ibuprofen)
EmlFiles ==
    { AbsentFile,
      [exists |-> TRUE, columns |-> {},
       rows |-> <<EmlRow(<<"Aspirin">>, B01AC06),
                  EmlRow(<<"clopidogrel", " ", "tablet">>, B01AC04),
                  EmlRow(<<"paracetamol">>, N02BE01),
                  EmlRow(<<"ibuprofen">>, <<"N02B", "A", "51">>),
                  EmlRow(<<"metformin">>, <<"A10BA", "02">>)>>] }

MedicineDetailsFiles ==
    { AbsentFile,
      [exists |-> TRUE, columns |-> {},
       rows |-> <<DetailsRow(<<"aspirin">>, <<"Aspirin", " ", "5", "0", "mg">>),
                  DetailsRow(<<"a">>, <<"aspirin", "+", "clopidogrel">>),
                  DetailsRow(<<"clopidogrel">>, <<"clopidogrel", " ", "aspirin">>),
                  DetailsRow(<<"b">>, <<"paracetamol">>)>>] }

\* Medication names of a request
AlternativeNames ==
    { <<"aspirin">>, <<"Aspirin">>, <<"aspirin", " ", "5", "0", "0", "mg">>,
      <<"acetylsalicylic", " ", "acid">>, <<"aspirin", " ", "warfarin">>,
      <<"paracetamol">>, <<"warfarin">>, <<"clopidogrel">>, <<"vitamin">> }

\* The dose a request text names: none, 50mg, 150 mg, 150.5mg, 300mg,
\* 500 MG, 5 g and 1,000mg
DoseParts ==
    { <<>>, <<" ", "5", "0", "mg">>, <<" ", "1", "5", "0", " ", "mg">>,
      <<" ", "1", "5", "0", ".", "5", "mg">>, <<" ", "3", "0", "0", "mg">>,
      <<" ", "5", "0", "0", " ", "MG">>, <<" ", "5", " ", "g">>,
      <<" ", "1", ",", "0", "0", "0", "mg">> }

\* The reason a request text names
ReasonParts ==
    { <<>>, <<" ", "for", " ", "pain">>, <<" ", "fever">>, <<" ", "heart">>,
      <<" ", "pain", " ", "heart">>, <<" ", "headache">> }

\* dose_text of a request for medication_name: None, empty, or a text
DoseTexts(medication_name) ==
    {None, Some(<<>>)}
      \cup {Some(medication_name \o d \o r) : d \in DoseParts, r \in ReasonParts}

MaxResults == {-1, 0, 1, 2, 5}

InitAlternatives ==
    /\ interactions_file = AbsentFile
    /\ atc_ddd_file \in AlternativeAtcFiles
    /\ age_specific_file = AbsentFile
    /\ canonical_file = AbsentFile
    /\ eml_file \in EmlFiles
    /\ indian_medicines_file = AbsentFile
    /\ medicine_details_file \in MedicineDetailsFiles
    /\ InitMemo

NextAlternatives ==
    \/ TakeResult
    \/ \E medication_name \in AlternativeNames :
          \E dose_text \in DoseTexts(medication_name), max_results \in MaxResults :
              SuggestAlternatives(medication_name, dose_text, max_results)
    \/ \E medication_name \in AlternativeNames :
          \E dose_text \in DoseTexts(medication_name) :
              GetAlternativesWithDetails(medication_name, dose_text)

SpecAlternatives == InitAlternatives /\ [][NextAlternatives]_vars

----------------------------------------------------------------------------
(* SpecFrame: one process serving check_interactions, calculate_dosage,     *)
(* suggest_alternatives and predict_risk in any order over files that stay  *)
(* as they are                                                              *)

\* atc_ddd.parquet, which dosage_engine.py and alternative_engine.py both read
FrameAtcFiles ==
    { AbsentFile,
      [exists |-> TRUE, columns |-> {},
       rows |-> <<AtcRow(<<"aspirin">>, B01AC06),
                  AtcRow(<<"clopidogrel">>, B01AC04),
                  AtcRow(N_a, N02BE01)>>] }

FrameMedications == {<<N_a>>, <<N_a, N_b>>, <<N_g, N_a, N_btab>>}

FrameDosageNames == {<<"aspirin">>, N_A5g, N_dose}

FrameRiskInputs ==
    { <<Filler>>,
      <<Med(<<"aspirin">>, Some(5), Some("mg"))>>,
      <<Med(N_a, Some(2), Some("mg")), Med(N_btab, None, Some("mg"))>> }

FrameNames == {<<"aspirin">>, <<"paracetamol">>, <<"vitamin">>}

FrameDoseTexts ==
    {None, Some(<<"aspirin", " ", "5", "0", "0", " ", "MG">>),
     Some(<<"aspirin", " ", "for", " ", "pain">>)}

InitFrame ==
    /\ interactions_file \in EngineInteractionFiles
    /\ atc_ddd_file \in FrameAtcFiles
    /\ age_specific_file \in AgeSpecificFiles
    /\ canonical_file = AbsentFile
    /\ eml_file \in EmlFiles
    /\ indian_medicines_file = AbsentFile
    /\ medicine_details_file \in MedicineDetailsFiles
    /\ InitMemo

NextFrame ==
    \/ TakeResult
    \/ \E medications \in FrameMedications : CheckInteractions(medications)
    \/ \E patient_info \in {PInfo(30), PInfo(70)}, medication \in FrameDosageNames,
          prescribed_dose \in {Some(2), Some(5)} :
          CalculateDosage(patient_info, medication, prescribed_dose, Some("mg"))
    \/ \E medication_name \in FrameNames, dose_text \in FrameDoseTexts,
          max_results \in {1, 5} :
          SuggestAlternatives(medication_name, dose_text, max_results)
    \/ \E medications \in FrameRiskInputs, patient_info \in {PInfo(30), PInfo(70)} :
          PredictRisk(medications, patient_info)

SpecFrame == InitFrame /\ [][NextFrame]_vars

----------------------------------------------------------------------------
(* SpecSingle: predict_risk for prescriptions of one medication, over every *)
(* dosage status and age group                                              *)

\* One medication: doses of 0 to 5 mg against a DDD of 2 mg (ratios 0 to
\* 2.5), a unit that does not convert, a name without DDD record, a null
\* dose, a null unit, and a medication given by name only
SingleMeds ==
    {Med(N_a, Some(v), Some("mg")) : v \in 0..5}
      \cup { Med(N_btab, Some(3), Some("lb")), Med(N_dose, Some(1), Some("mg")),
             Med(N_btab, None, Some("mg")), Med(N_g, Some(1), None), Filler }

SinglePatientInfos ==
    {[patient_weight_kg |-> 70]} \cup {PInfo(a) : a \in {0, 1, 5, 12, 30, 65, 66}}

InitSingle ==
    /\ interactions_file \in EngineInteractionFiles
    /\ atc_ddd_file \in EngineDddFiles
    /\ age_specific_file \in AgeSpecificFiles
    /\ canonical_file = AbsentFile
    /\ NoAlternativeFiles
    /\ InitMemo

NextSingle ==
    \/ TakeResult
    \/ \E med \in SingleMeds, patient_info \in SinglePatientInfos :
          PredictRisk(<<med>>, patient_info)

SpecSingle == InitSingle /\ [][NextSingle]_vars

----------------------------------------------------------------------------
(* SpecPrescription: predict_risk over prescriptions of up to               *)
(* MaxPrescription medications that interact with one another, alone or     *)
(* followed by medications given by name only                               *)

\* Medications with dose data: a (DDD 2 mg) safe at 2 mg and very_high at
\* 5 mg, b (DDD 1 g) very_high at 5 g, g without DDD record.  In the
\* interactions table a-b is Major, g-a Minor and g-b 'Mild'.
PrescriptionMeds ==
    { Med(N_a, Some(2), Some("mg")),
      Med(N_A5g, Some(5), Some("mg")),
      Med(N_btab, Some(5), Some("g")),
      Med(N_g, Some(1), Some("mg")),
      Filler }

\* How many medications given by name only follow: with 7 of them a
\* prescription of two medications reaches the highest polypharmacy step
PrescriptionPads == {0, 7}

Prescriptions ==
    {p \o [k \in 1..n |-> Filler] :
        p \in SeqUpTo(PrescriptionMeds, MaxPrescription) \ {<<>>},
        n \in PrescriptionPads}

InitPrescription ==
    /\ interactions_file \in EngineInteractionFiles
    /\ atc_ddd_file \in EngineDddFiles
    /\ age_specific_file = AbsentFile
    /\ canonical_file = AbsentFile
    /\ NoAlternativeFiles
    /\ InitMemo

NextPrescription ==
    \/ TakeResult
    \/ \E medications \in Prescriptions, patient_info \in {PInfo(30), PInfo(70)} :
          PredictRisk(medications, patient_info)

SpecPrescription == InitPrescription /\ [][NextPrescription]_vars

----------------------------------------------------------------------------
(* SpecDefaultAge: calculate_dosage and predict_risk for patients whose age *)
(* is absent, 0 or 5                                                        *)

YoungPatientInfos == {[patient_weight_kg |-> 70], PInfo(0), PInfo(5)}

\* Prescriptions of one to nine medications: a at 3 mg (ratio 1.5) alone or
\* with b at 5 g, followed by medications given by name only
YoungPrescriptions ==
    {p \o [k \in 1..n |-> Filler] :
        p \in { <<Med(N_a, Some(3), Some("mg"))>>,
                <<Med(N_a, Some(3), Some("mg")), Med(N_btab, Some(5), Some("g"))>>,
                <<Filler, Filler>> },
        n \in PadCounts}

InitDefaultAge ==
    /\ interactions_file \in EngineInteractionFiles
    /\ atc_ddd_file \in EngineDddFiles
    /\ age_specific_file \in AgeSpecificFiles
    /\ canonical_file = AbsentFile
    /\ NoAlternativeFiles
    /\ InitMemo

NextDefaultAge ==
    \/ TakeResult
    \/ \E patient_info \in YoungPatientInfos, medication \in {N_A5g, N_dose},
          prescribed_dose \in {Some(v) : v \in 1..5} :
          CalculateDosage(patient_info, medication, prescribed_dose, Some("mg"))
    \/ \E medications \in YoungPrescriptions, patient_info \in YoungPatientInfos :
          PredictRisk(medications, patient_info)

SpecDefaultAge == InitDefaultAge /\ [][NextDefaultAge]_vars

----------------------------------------------------------------------------
(* Properties *)

\* The status a call ended with
StatusOf(call) ==
    IF call.outcome = "returned" /\ "status" \in DOMAIN call.result
    THEN call.result.status ELSE call.outcome

\* C1: for every loaded interaction table and every pair of normalized names
\* (a, b), find_interaction(a, b) gives the same record, or the same absence
\* of a record, as find_interaction(b, a).
C1_Symmetric ==
    /\ \A a \in Keys, b \in Keys :
          find_interaction(interactions_index, a, b)
            = find_interaction(interactions_index, b, a)
    /\ last.op = "find_interaction" =>
          last.result = find_interaction(interactions_index,
                                         last.args.drug2, last.args.drug1)

\* C1 witness: a lookup of two different names found a record in the loaded index
C1_Witness ==
    /\ last.op = "find_interaction"
    /\ interactions_index # None
    /\ last.args.drug1 # last.args.drug2
    /\ last.result # None
    /\ ~StrLeq(last.args.drug1, last.args.drug2)

\* C2: when check_interactions calls run concurrently and one of them triggers
\* the first load, every call returns the result it would return alone after
\* the load had finished.
C2_RaceSafe ==
    \A t \in Threads :
        pc[t] = "done" =>
            loc[t].result
              = check_interactions(None, None, interactions_file,
                                   loc[t].medications).result

\* C2 witness: a call that ran beside the first load reported no issue for a
\* list that has issues
C2_Witness ==
    \E t \in Threads :
        /\ pc[t] = "done"
        /\ loc[t].result.ok
        /\ ~check_interactions(None, None, interactions_file,
                               loc[t].medications).result.ok

\* C3: the risk_score (in tenths) returned by predict_risk is between 0 and 10.
C3_RiskScoreBounds ==
    (last.op = "predict_risk" /\ last.outcome = "returned") =>
        /\ last.result.risk_score >= 0
        /\ last.result.risk_score <= 100

\* C3 witness: predict_risk of several medications found risk (a score below 10)
C3_Witness ==
    /\ last.op = "predict_risk"
    /\ last.outcome = "returned"
    /\ Len(last.args.medications) >= 2
    /\ last.result.risk_score < 60
    /\ last.result.factors.interaction_risk.score > 0
    /\ last.result.factors.dosage_risk.score > 0

\* C4: for a medication list of length 0 or 1, check_interactions returns
\* ok = true, no issues and total_interactions = 0, whatever the table holds
\* and whether or not it is loaded.
C4_ShortList ==
    (last.op = "check_interactions" /\ Len(last.args.medications) < 2) =>
        /\ last.outcome = "returned"
        /\ last.result.ok = TRUE
        /\ last.result.issues = <<>>
        /\ last.result.total_interactions = 0

\* C4 witness: a single-medication call made while a non-empty table is loaded
C4_Witness ==
    /\ last.op = "check_interactions"
    /\ Len(last.args.medications) = 1
    /\ interactions_index # None
    /\ DOMAIN interactions_index[1] # {}

\* C5: for a list of length n >= 2, check_interactions looks up each position
\* pair (i, j), i < j, exactly once in (i, j) order; the issues are exactly
\* one per pair whose normalized names are in the index, in (i, j) order,
\* each carrying the original strings medications[i] and medications[j].
C5_EveryPairOnce ==
    (last.op = "check_interactions" /\ Len(last.args.medications) >= 2) =>
        LET meds == last.args.medications
            n == Len(meds)
            pairs == {p \in (1..n) \X (1..n) : p[1] < p[2]}
            hits == {p \in pairs :
                        SortedPair(normalize_med_name(meds[p[1]]),
                                   normalize_med_name(meds[p[2]]))
                          \in DOMAIN interactions_index[1]}
            Before(q, p) == q[1] < p[1] \/ (q[1] = p[1] /\ q[2] < p[2])
            PosIn(S, p) == Cardinality({q \in S : Before(q, p)}) + 1
        IN  /\ Len(last.lookups) = Cardinality(pairs)
            /\ \A p \in pairs : last.lookups[PosIn(pairs, p)] = p
            /\ Len(last.result.issues) = Cardinality(hits)
            /\ \A p \in hits :
                  /\ last.result.issues[PosIn(hits, p)].drug_1 = meds[p[1]]
                  /\ last.result.issues[PosIn(hits, p)].drug_2 = meds[p[2]]

\* C5 witness: three medications, at least two issues, one of them for a name
\* that differs from its normalized key
C5_Witness ==
    /\ last.op = "check_interactions"
    /\ Len(last.args.medications) = 3
    /\ Len(last.result.issues) >= 2
    /\ Len(last.result.issues) < Len(last.lookups)
    /\ \E k \in 1..Len(last.result.issues) :
          last.result.issues[k].drug_1
            # normalize_med_name(last.result.issues[k].drug_1)

\* C6: in every result of check_interactions, ok is true iff there is no
\* issue, total_interactions is the number of issues, and severity_summary
\* tallies every issue under its severity tag, so the tallies sum to
\* total_interactions.
C6_TalliesSumToTotal ==
    last.op = "check_interactions" =>
        LET res == last.result
            d == res.severity_summary
            Sum[S \in SUBSET (DOMAIN d)] ==
                IF S = {} THEN 0
                ELSE LET t == CHOOSE t \in S : TRUE IN d[t] + Sum[S \ {t}]
        IN  /\ res.ok <=> (res.issues = <<>>)
            /\ res.total_interactions = Len(res.issues)
            /\ \A k \in 1..Len(res.issues) :
                  /\ res.issues[k].severity \in DOMAIN d
                  /\ d[res.issues[k].severity]
                       = Cardinality({j \in 1..Len(res.issues) :
                             res.issues[j].severity = res.issues[k].severity})
            /\ Sum[DOMAIN d] = res.total_interactions

\* C6 witness: one issue, and no tally counts it
C6_Witness ==
    /\ last.op = "check_interactions"
    /\ last.result.total_interactions = 1
    /\ \A t \in DOMAIN last.result.severity_summary :
          last.result.severity_summary[t] = 0

\* C7: when no DDD record exists for the normalized medication name,
\* calculate_dosage returns status unknown for every dose, every unit and
\* every age, and computes no ratio.
C7_UnknownFirst ==
    (last.op = "calculate_dosage"
       /\ get_ddd(atc_ddd_df[1], last.args.medication) = None) =>
        /\ last.outcome = "returned"
        /\ last.result.status = "unknown"
        /\ "dose_ratio" \notin DOMAIN last.result

\* C7 witness: a dose in a unit that cannot be converted, for a medication
\* that a non-empty DDD table does not hold
C7_Witness ==
    /\ last.op = "calculate_dosage"
    /\ Len(atc_ddd_df[1]) > 0
    /\ get_ddd(atc_ddd_df[1], last.args.medication) = None
    /\ last.args.dose_unit = Some("lb")
    /\ last.result.status = "unknown"

\* C8 as stated: with a DDD record, status error for every dose unit outside
\* {mg, g, mcg}; for a unit inside, never error when the DDD's unit is inside
\* too; never error when there is no DDD record.
C8_ErrorOutsideTable ==
    (last.op = "calculate_dosage" /\ last.args.dose_unit # None) =>
        LET ddd == get_ddd(atc_ddd_df[1], last.args.medication)
            table == {"mg", "g", "mcg"}
        IN  IF ddd = None THEN StatusOf(last) # "error"
            ELSE /\ last.args.dose_unit[1] \notin table => StatusOf(last) = "error"
                 /\ (last.args.dose_unit[1] \in table /\ ddd[1].unit \in table)
                       => StatusOf(last) # "error"

\* C8 amended: with a DDD record, status error for every dose unit whose
\* lower-case form is outside {mg, g, mcg, ug}; for a unit whose lower-case
\* form is inside, never error when the lower-case form of the DDD's unit is
\* inside too; never error when there is no DDD record.
C8_ErrorOutsideLoweredTable ==
    (last.op = "calculate_dosage" /\ last.args.dose_unit # None) =>
        LET ddd == get_ddd(atc_ddd_df[1], last.args.medication)
            table == {"mg", "g", "mcg", "ug"}
        IN  IF ddd = None THEN StatusOf(last) # "error"
            ELSE /\ LowerUnit(last.args.dose_unit[1]) \notin table
                       => StatusOf(last) = "error"
                 /\ (LowerUnit(last.args.dose_unit[1]) \in table
                       /\ LowerUnit(ddd[1].unit) \in table)
                       => StatusOf(last) # "error"

\* C8 witness: a dose in ug verified against a DDD in a unit of the table
C8_Witness ==
    /\ last.op = "calculate_dosage"
    /\ last.args.dose_unit = Some("ug")
    /\ get_ddd(atc_ddd_df[1], last.args.medication) # None
    /\ last.outcome = "returned"
    /\ last.result.status \in {"safe", "low", "high", "very_high"}

\* C9: no call to check_interactions, calculate_dosage or predict_risk ends
\* in a raised exception.
C9_NeverRaises ==
    last.op \in {"check_interactions", "calculate_dosage", "predict_risk"} =>
        last.outcome = "returned"

\* C9 witness: predict_risk raised for a single medication whose dose is null
C9_Witness ==
    /\ last.op = "predict_risk"
    /\ last.outcome = "raised"
    /\ last.args.medications = <<Med(N_btab, None, Some("mg"))>>

\* C10: when a table's backing file is absent its accessor returns an empty
\* table; check_interactions then returns ok = true with no issues for every
\* list and calculate_dosage status unknown for every medication.
C10_AbsentFiles ==
    /\ ~interactions_file.exists =>
          /\ interactions_df \in {None, Some(<<>>)}
          /\ last.op = "load_interactions_db" => last.result = Some(<<>>)
          /\ last.op = "check_interactions" =>
                /\ last.outcome = "returned"
                /\ last.result.ok = TRUE
                /\ last.result.issues = <<>>
    /\ ~atc_ddd_file.exists =>
          /\ atc_ddd_df \in {None, Some(<<>>)}
          /\ last.op = "load_atc_ddd_db" => last.result = Some(<<>>)
          /\ last.op = "calculate_dosage" =>
                /\ last.outcome = "returned"
                /\ last.result.status = "unknown"

\* C10 witness: with both files absent, the interaction accessor has given
\* its empty table and a dosage call has ended unknown
C10_Witness ==
    /\ ~interactions_file.exists
    /\ ~atc_ddd_file.exists
    /\ interactions_df = Some(<<>>)
    /\ atc_ddd_df = Some(<<>>)
    /\ last.op = "calculate_dosage"
    /\ last.result.status = "unknown"

\* The table the first call of a parquet accessor memoizes
FirstLoad(file) == Some(IF file.exists THEN file.rows ELSE <<>>)

C13_Idempotent ==
    [][ (/\ last.op = "normalize_med_name"
         /\ last'.op = "normalize_med_name"
         /\ last'.args.name = last.result) => last'.result = last.result ]_vars

\* The key "5 g", which "5 tablet g" normalizes to, has been normalized again
\* and gave the empty key.
C13_Witness ==
    /\ last.op = "normalize_med_name"
    /\ last.args.name = <<"5", " ", "g">>
    /\ last.result = <<>>

\* C14: a medication name whose normalized key is empty matches no reference
\* entry: no issue of check_interactions names it and calculate_dosage finds
\* no DDD record for it (status unknown), whatever the tables hold.
C14_EmptyKeyNeverMatches ==
    /\ (last.op = "check_interactions" /\ last.outcome = "returned") =>
          \A k \in 1..Len(last.result.issues) :
              /\ normalize_med_name(last.result.issues[k].drug_1) # <<>>
              /\ normalize_med_name(last.result.issues[k].drug_2) # <<>>
    /\ (last.op = "calculate_dosage"
          /\ normalize_med_name(last.args.medication) = <<>>) =>
          StatusOf(last) = "unknown"

\* The name "5g", whose key is empty, has obtained the DDD record stored under
\* the empty key, or an issue against "a".
C14_Witness ==
    \/ /\ last.op = "calculate_dosage"
       /\ last.args.medication = N_dose
       /\ StatusOf(last) = "safe"
    \/ /\ last.op = "check_interactions"
       /\ last.args.medications = <<N_dose, N_a>>
       /\ Len(last.result.issues) = 1

\* C15: predict_risk with an empty medication list returns risk_score 10.0,
\* risk_level SAFE and an empty factor map for every patient_info, and the
\* call loads no reference table (every memoized table is left as it was).
C15_EmptyList ==
    [][ (/\ last = NoCall
         /\ last'.op = "predict_risk"
         /\ last'.args.medications = <<>>) =>
            /\ last'.outcome = "returned"
            /\ last'.result.risk_score = 100
            /\ last'.result.risk_level = "SAFE"
            /\ last'.result.factors = <<>>
            /\ UNCHANGED memo ]_vars

\* predict_risk has returned for an empty list and a patient aged 70 while
\* the files exist and no table has been loaded yet.
C15_Witness ==
    /\ last.op = "predict_risk"
    /\ last.args.medications = <<>>
    /\ last.args.patient_info = PInfo(70)
    /\ interactions_file.exists
    /\ atc_ddd_file.exists
    /\ interactions_df = None
    /\ atc_ddd_df = None
    /\ age_specific_df = None

\* The band of a risk_score given in tenths.
BandOfScore(risk_score) ==
    IF risk_score >= 80 THEN "SAFE"
    ELSE IF risk_score >= 60 THEN "LOW RISK"
    ELSE IF risk_score >= 40 THEN "MODERATE RISK"
    ELSE IF risk_score >= 20 THEN "HIGH RISK"
    ELSE "CRITICAL"

\* C16: in every result of predict_risk, risk_level is the band of the
\* returned risk_score (SAFE from 8, LOW RISK from 6, MODERATE RISK from 4,
\* HIGH RISK from 2, CRITICAL below).
C16_LevelIsBandOfScore ==
    (last.op = "predict_risk" /\ last.outcome = "returned") =>
        last.result.risk_level = BandOfScore(last.result.risk_score)

\* predict_risk has returned risk_score 8.0 together with risk_level LOW RISK
\* (nine medications, patient aged 70: the unrounded score is 7.995).
C16_Witness ==
    /\ last.op = "predict_risk"
    /\ last.outcome = "returned"
    /\ last.result.risk_score = 80
    /\ last.result.risk_level = "LOW RISK"
    /\ Len(last.args.medications) = 9

\* The fields every result of calculate_dosage holds (lines 77-82, 88-93)
ShortFields == {"status", "message", "prescribed_dose", "recommendation"}

\* The fields of a result that went through verify_dosage_safety (109-116)
VerifiedFields == {"ddd", "dose_ratio", "age_group", "age_adjustment"}

\* C17 as stated: every result of calculate_dosage, whatever its status,
\* contains status, message, prescribed dose, dose ratio, age group,
\* age-adjustment text and recommendation, and the formatted DDD whenever a
\* DDD record was found.
C17_AllFields ==
    (last.op = "calculate_dosage" /\ last.outcome = "returned") =>
        /\ ShortFields \cup (VerifiedFields \ {"ddd"}) \subseteq DOMAIN last.result
        /\ get_ddd(atc_ddd_df[1], last.args.medication) # None =>
              "ddd" \in DOMAIN last.result

\* C17 amended: every result contains status, message, prescribed dose and
\* recommendation; a result of status safe, low, high or very_high contains
\* the DDD, the dose ratio, the age group and the age-adjustment text as well,
\* and a result of status unknown or error contains none of these four.
C17_ResultFields ==
    (last.op = "calculate_dosage" /\ last.outcome = "returned") =>
        /\ last.result.status \in
              {"safe", "low", "high", "very_high", "unknown", "error"}
        /\ DOMAIN last.result =
              IF last.result.status \in {"unknown", "error"}
              THEN ShortFields
              ELSE ShortFields \cup VerifiedFields

\* calculate_dosage has returned status error for a medication that has a DDD
\* record.
C17_Witness ==
    /\ last.op = "calculate_dosage"
    /\ last.outcome = "returned"
    /\ last.result.status = "error"
    /\ get_ddd(atc_ddd_df[1], last.args.medication) # None

\* The result r of predict_risk reports exactly one interaction, a Major one.
OneMajorInteraction(r) ==
    /\ "total_interactions" \in DOMAIN r.factors.interaction_risk.details
    /\ r.factors.interaction_risk.details.total_interactions = 1
    /\ r.factors.interaction_risk.details.severity_summary.Major = 1

\* The result r of predict_risk reports a medication of status very_high.
OneVeryHigh(r) ==
    /\ "issues" \in DOMAIN r.factors.dosage_risk.details
    /\ \E k \in 1..Len(r.factors.dosage_risk.details.issues) :
          r.factors.dosage_risk.details.issues[k].status = "very_high"

\* The prescriptions of two medications the caller may send.
TwoMedications == {b \in RiskInputs : Len(b) = 2}

\* What predict_risk returns for b and patient_info from the tables as they
\* are now, when b has no interactions.
WithoutInteractions(b, patient_info) ==
    {o \in predict_risk(
            [df |-> interactions_df, index |-> interactions_index,
             atc_df |-> atc_ddd_df, age_df |-> age_specific_df],
            [interactions |-> interactions_file, atc |-> atc_ddd_file,
             age |-> age_specific_file], b, patient_info) :
        /\ ~o.raised
        /\ o.result.factors.interaction_risk.details
             = [message |-> "No interactions detected"]}

\* C18: for a patient aged 70, a prescription of 7 medications with one Major
\* interaction and a medication of dosage status very_high gets a score
\* strictly lower than every prescription of 2 medications without
\* interactions, for the same patient and the same tables.
C18_SevenBelowTwo ==
    (/\ last.op = "predict_risk"
     /\ last.outcome = "returned"
     /\ Len(last.args.medications) = 7
     /\ last.args.patient_info = PInfo(70)
     /\ OneMajorInteraction(last.result)
     /\ OneVeryHigh(last.result)) =>
        \A b \in TwoMedications :
            \A o \in WithoutInteractions(b, last.args.patient_info) :
                last.result.risk_score < o.result.risk_score

\* Seven medications with one Major interaction and a very_high dose have been
\* scored for a patient aged 70, and a prescription of two medications
\* without interactions, one of them very_high, exists to compare with.
C18_Witness ==
    /\ last.op = "predict_risk"
    /\ last.outcome = "returned"
    /\ Len(last.args.medications) = 7
    /\ last.args.patient_info = PInfo(70)
    /\ OneMajorInteraction(last.result)
    /\ OneVeryHigh(last.result)
    /\ \E b \in TwoMedications :
          \E o \in WithoutInteractions(b, last.args.patient_info) :
              OneVeryHigh(o.result)

\* The unrounded dose ratio of the last call of calculate_dosage, whose
\* medication has the DDD record ddd_info and whose unit converts.
UnroundedRatio(ddd_info) ==
    DoseRatio(normalize_dosage_unit(last.args.prescribed_dose,
                                    last.args.dose_unit,
                                    Some(ddd_info.unit)).value[1],
              ddd_info.ddd)

REqual(a, b) == RLe(a, b) /\ RLe(b, a)

\* The status the bands give to a ratio q for an adolescent or an adult.
StatusOfRatio(q) ==
    IF RLt(q, <<1, 2>>) THEN "low"
    ELSE IF RLe(q, <<3, 2>>) THEN "safe"
    ELSE IF RLe(q, R(2)) THEN "high"
    ELSE "very_high"

BandedAs(ddd_info, q, status) ==
    /\ status = StatusOfRatio(q)
    /\ REqual(q, <<1, 2>>) => status = "safe"
    /\ REqual(q, <<3, 2>>) => status = "safe"
    /\ REqual(q, R(2)) => status = "high"
    /\ ddd_info.ddd = 0 => REqual(q, R(0)) /\ status = "low"

\* C20: for the age groups Adolescent and Adult the status of a verified
\* dose is the band of the unrounded dose ratio (low below 0.5, safe up to
\* 1.5, high up to 2.0, very_high above); the ratios 0.5, 1.5 and 2.0 give
\* safe, safe and high, and a DDD of 0 gives ratio 0 and status low.
C20_StatusIsBandOfRatio ==
    (/\ last.op = "calculate_dosage"
     /\ last.outcome = "returned"
     /\ "dose_ratio" \in DOMAIN last.result
     /\ last.result.age_group \in {"Adolescent", "Adult"}) =>
        BandedAs(get_ddd(atc_ddd_df[1], last.args.medication)[1],
                 UnroundedRatio(get_ddd(atc_ddd_df[1], last.args.medication)[1]),
                 last.result.status)

\* An adult's dose of 3 mg against a DDD of 2 mg (ratio exactly 1.5) has been
\* verified.
C20_Witness ==
    /\ last.op = "calculate_dosage"
    /\ last.outcome = "returned"
    /\ "dose_ratio" \in DOMAIN last.result
    /\ last.result.age_group = "Adult"
    /\ last.args.prescribed_dose = Some(3)
    /\ last.args.dose_unit = Some("mg")
    /\ last.result.ddd = <<2, "mg">>
    /\ last.result.status = "safe"


\* The names the aspirin rule of lines 192-193 answers for
NamesAspirin(medication_name) ==
    \E i \in 1..Len(medication_name) :
        Lower(medication_name[i]) \in {"aspirin", "acetylsalicylic"}

IsAntiplatelet(result) ==
    /\ result.therapeutic_intent = "antiplatelet"
    /\ result.target_atc_codes = << <<"B01A", "C">> >>

IsAnalgesic(result) ==
    /\ result.therapeutic_intent = "analgesic/antipyretic"
    /\ result.target_atc_codes
         = << <<"N02B", "A">>, <<"N02B", "E">>, <<"M01A">> >>

DoseAtMost(result, mg) ==
    result.dose # None /\ result.dose[1][1] <= mg * result.dose[1][2]

DoseAtLeast(result, mg) ==
    result.dose # None /\ result.dose[1][1] >= mg * result.dose[1][2]

PainOrFever(result) ==
    \E k \in 1..Len(result.explanation.context) :
        result.explanation.context[k] \in {"pain", "fever"}

AspirinCall ==
    /\ last.op = "get_alternatives_with_details"
    /\ NamesAspirin(last.args.medication_name)

\* C19: for a medication name containing aspirin or acetylsalicylic the
\* intent is antiplatelet with prefix B01AC when the parsed dose is at most
\* 150 mg, analgesic/antipyretic with prefixes N02BA, N02BE, M01A when it is
\* at least 300 mg, and otherwise follows the context tags: pain or fever
\* give analgesic/antipyretic, cardiovascular or no tag gives antiplatelet;
\* another drug family named in the same text never decides.
C19_AspirinByDose ==
    AspirinCall =>
        IF DoseAtMost(last.result, 150) THEN IsAntiplatelet(last.result)
        ELSE IF DoseAtLeast(last.result, 300) THEN IsAnalgesic(last.result)
        ELSE IF PainOrFever(last.result) THEN IsAnalgesic(last.result)
        ELSE IsAntiplatelet(last.result)

\* An aspirin request that also names warfarin, without a dose, for pain
C19_Witness ==
    /\ AspirinCall
    /\ last.args.medication_name = <<"aspirin", " ", "warfarin">>
    /\ last.result.dose = None
    /\ PainOrFever(last.result)
    /\ IsAnalgesic(last.result)


\* Every table the four operations read is memoized
TablesLoaded ==
    /\ interactions_df # None
    /\ interactions_index # None
    /\ atc_ddd_df # None
    /\ age_specific_df # None
    /\ alternative_atc_df # None
    /\ eml_df # None
    /\ indian_df # None
    /\ medicine_details_df # None

\* The globals of a process that has served no call
FreshEngine == [df |-> None, index |-> None, atc_df |-> None, age_df |-> None]

FreshAlternatives ==
    [atc_df |-> None, eml_df |-> None, indian_df |-> None, details_df |-> None]

EngineFiles ==
    [interactions |-> interactions_file, atc |-> atc_ddd_file,
     age |-> age_specific_file]

HowEnded(o) == IF o.raised THEN "raised" ELSE "returned"

\* What the call c gives as the first call of a process over the same files
FirstCallGives(c) ==
    CASE c.op = "check_interactions" ->
           {<<"returned",
              check_interactions(None, None, interactions_file,
                                 c.args.medications).result>>}
      [] c.op = "calculate_dosage" ->
           {<<HowEnded(o), o.result>> :
              o \in calculate_dosage(None, None, atc_ddd_file, age_specific_file,
                                     c.args.patient_info, c.args.medication,
                                     c.args.prescribed_dose, c.args.dose_unit)}
      [] c.op = "suggest_alternatives" ->
           {<<"returned",
              suggest_alternatives(FreshAlternatives, AlternativeFiles,
                                   c.args.medication_name, c.args.dose_text,
                                   c.args.max_results).result>>}
      [] c.op = "predict_risk" ->
           {<<HowEnded(o), o.result>> :
              o \in predict_risk(FreshEngine, EngineFiles, c.args.medications,
                                 c.args.patient_info)}

FrameOps ==
    {"check_interactions", "calculate_dosage", "suggest_alternatives",
     "predict_risk"}

\* C12: once the tables are loaded, a call of check_interactions,
\* calculate_dosage, suggest_alternatives or predict_risk leaves every
\* memoized table and the pair index as they were, and its result is the one
\* the same call gives as the first call of a process: it depends on the
\* arguments and the files only, not on the calls that ran before.
C12_Frame ==
    [][ (TablesLoaded /\ last = NoCall /\ last'.op \in FrameOps)
          => /\ memo' = memo
             /\ <<last'.outcome, last'.result>> \in FirstCallGives(last') ]_vars

\* Every table is loaded and a risk prediction that reads no table has been
\* served: the tables were loaded by the calls before it.
C12_Witness ==
    /\ TablesLoaded
    /\ Len(atc_ddd_df[1]) > 0
    /\ Len(interactions_df[1]) > 0
    /\ last.op = "predict_risk"
    /\ last.args.medications = <<Filler>>
    /\ last.outcome = "returned"


\* The recommendation of lines 206-224 for the status of a ratio band
RecommendationOfBand(status) ==
    CASE status = "low" -> <<"Verify therapeutic efficacy">>
      [] status = "safe" -> <<"Continue as prescribed">>
      [] status = "high" -> <<"Monitor for adverse effects">>
      [] status = "very_high" -> <<"VERIFY PRESCRIPTION">>

SeverityRank(status) ==
    CASE status = "low" -> 0
      [] status = "safe" -> 0
      [] status = "high" -> 1
      [] status = "very_high" -> 2

\* A verified dose: the last call of calculate_dosage computed a dose ratio
VerifiedDose ==
    /\ last.op = "calculate_dosage"
    /\ last.outcome = "returned"
    /\ "dose_ratio" \in DOMAIN last.result

LastRatio == UnroundedRatio(get_ddd(atc_ddd_df[1], last.args.medication)[1])

EscalatedCase(q) ==
    /\ last.result.age_group \in {"Pediatric", "Infant", "Geriatric"}
    /\ RLt(R(1), q)

EscalatedAs(q, result) ==
    /\ result.status = (IF RLe(q, <<3, 2>>) THEN "high" ELSE "very_high")
    /\ SeverityRank(result.status) >= SeverityRank(StatusOfRatio(q))

PlainAs(q, result) ==
    /\ result.status = StatusOfRatio(q)
    /\ result.recommendation = RecommendationOfBand(StatusOfRatio(q))

\* C21: for the age groups Pediatric, Infant and Geriatric a ratio above 1.0
\* gives high up to 1.5 and very_high above, never less severe than the plain
\* band of the ratio; a ratio of at most 1.0 in these groups, and every ratio
\* in the other groups, gives the status and recommendation of the plain band.
C21_Escalation ==
    VerifiedDose =>
        IF EscalatedCase(LastRatio) THEN EscalatedAs(LastRatio, last.result)
        ELSE PlainAs(LastRatio, last.result)

\* A geriatric dose at ratio exactly 1.5 has been escalated from safe to high
C21_Witness ==
    /\ VerifiedDose
    /\ last.result.age_group = "Geriatric"
    /\ REqual(LastRatio, <<3, 2>>)
    /\ last.result.status = "high"
    /\ StatusOfRatio(LastRatio) = "safe"

\* A pediatric dose at ratio exactly 1.0 keeps the plain band
C21_PlainAtOne ==
    /\ VerifiedDose
    /\ last.result.age_group = "Pediatric"
    /\ REqual(LastRatio, R(1))
    /\ last.result.status = "safe"


\* all_alternatives of the last call of suggest_alternatives (lines 427-440),
\* from the tables the call has left loaded
GeneratedCandidates ==
    find_same_ingredient_alternatives(medicine_details_df[1],
                                      last.args.medication_name)
    \o (IF IntentOf(last.args.medication_name,
                    SearchText(last.args.medication_name,
                               last.args.dose_text)).prefixes = <<>>
        THEN <<>>
        ELSE find_alternatives_by_atc_level4(
                 alternative_atc_df[1], eml_df[1],
                 IntentOf(last.args.medication_name,
                          SearchText(last.args.medication_name,
                                     last.args.dose_text)).prefixes,
                 last.args.medication_name))

SameName(a, b) == normalize_med_name(a.name) = normalize_med_name(b.name)

LowestOfItsName(r, candidates) ==
    \A k \in 1..Len(candidates) :
        SameName(r, candidates[k]) => r.priority <= candidates[k].priority

NoNameTwice(result) ==
    \A i, j \in 1..Len(result) : SameName(result[i], result[j]) => i = j

SuggestReturned == last.op = "suggest_alternatives" /\ last.outcome = "returned"

\* C22: in the result of suggest_alternatives the candidate kept for a
\* normalized name is the one with the lowest priority number among the
\* candidates generated under that name (same-ingredient 0, classification
\* prefix 1, essential medicines 2), also across several target prefixes, and
\* no two candidates of the result have the same normalized name.
C22_LowestPriorityKept ==
    SuggestReturned =>
        /\ NoNameTwice(last.result)
        /\ \A i \in 1..Len(last.result) :
              LowestOfItsName(last.result[i], GeneratedCandidates)

\* The result keeps a name from the essential medicines list (priority 2)
\* although the classification table generated it too (priority 1)
C22_Witness ==
    /\ SuggestReturned
    /\ \E i \in 1..Len(last.result) :
          /\ last.result[i].priority = 2
          /\ \E k \in 1..Len(GeneratedCandidates) :
                /\ SameName(last.result[i], GeneratedCandidates[k])
                /\ GeneratedCandidates[k].priority = 1

\* The second half of C22 alone: no normalized name twice in a result
C22_NoNameTwice == SuggestReturned => NoNameTwice(last.result)


\* The deduplicated candidates of the last call in ranked order
RankedCandidates == SortByPriority(Deduplicate(GeneratedCandidates))

\* How many candidates a bound of max_results lets through
Allowed(max_results, n) ==
    IF max_results <= 0 THEN 0 ELSE IF max_results < n THEN max_results ELSE n

NonDecreasingPriority(result) ==
    \A i, j \in 1..Len(result) : i < j => result[i].priority <= result[j].priority

\* C23: the list returned by suggest_alternatives is the deduplicated
\* candidate list in non-decreasing priority, candidates of one priority in
\* generation order, cut to its first max_results entries: it holds at most
\* max_results candidates, none when max_results is 0 or negative.
C23_RankedAndCut ==
    SuggestReturned =>
        /\ NonDecreasingPriority(last.result)
        /\ Len(last.result)
             = Allowed(last.args.max_results, Len(RankedCandidates))
        /\ last.result = SubSeq(RankedCandidates, 1, Len(last.result))

\* A call with max_results = -1 has returned a candidate
C23_Witness ==
    /\ SuggestReturned
    /\ last.args.max_results = -1
    /\ Len(last.result) >= 1
    /\ Len(RankedCandidates) = Len(last.result) + 1

\* C23 for the bounds that are not negative
C23_RankedAndCutFromZero ==
    (SuggestReturned /\ last.args.max_results >= 0) =>
        /\ NonDecreasingPriority(last.result)
        /\ Len(last.result)
             = Allowed(last.args.max_results, Len(RankedCandidates))
        /\ last.result = SubSeq(RankedCandidates, 1, Len(last.result))


\* A medication with dose data: dose and unit present and the dose not null
HasDoseData(med) ==
    /\ "dose" \in DOMAIN med
    /\ "unit" \in DOMAIN med
    /\ med.dose # None

WeightOfStatus(status) ==
    CASE status = "safe" -> 0
      [] status = "low" -> 10
      [] status = "high" -> 40
      [] status = "very_high" -> 75
      [] status = "unknown" -> 5
      [] status = "error" -> 5

\* The status calculate_dosage gives to a medication of the last call
StatusOfMed(med) ==
    (CHOOSE o \in calculate_dosage(atc_ddd_df, age_specific_df, atc_ddd_file,
                                   age_specific_file, last.args.patient_info,
                                   med.name, med.dose, med.unit) : TRUE
    ).result.status

RECURSIVE WeightsWithData(_, _)
\* The status weights of the medications from position k on that have dose data
WeightsWithData(medications, k) ==
    IF k > Len(medications) THEN <<>>
    ELSE IF HasDoseData(medications[k])
    THEN <<WeightOfStatus(StatusOfMed(medications[k]))>>
           \o WeightsWithData(medications, k + 1)
    ELSE WeightsWithData(medications, k + 1)

RiskReturned ==
    /\ last.op = "predict_risk"
    /\ last.outcome = "returned"
    /\ last.args.medications # <<>>

DosageFactor == last.result.factors.dosage_risk

MeanOfWeights(w, factor) ==
    IF w = <<>>
    THEN /\ factor.score = 0
         /\ factor.details.message = "No dosage data available"
    ELSE /\ factor.details.medications_checked = Len(w)
         /\ factor.score \in RoundTo(<<SumSeq(w), 10 * Len(w)>>, 10)

\* C24: in the dosage sub-score a medication without dose data (dose or unit
\* absent, or dose null) is skipped; the sub-score is the mean of the status
\* weights (safe 0, low 10, high 40, very_high 75, unknown 5, error 5) over
\* the medications that have dose data, and 0 with the note 'No dosage data
\* available' when none has.
C24_MeanOverDoseData ==
    RiskReturned =>
        MeanOfWeights(WeightsWithData(last.args.medications, 1), DosageFactor)

\* A prescription whose only dose entry is null has been scored: the
\* medication was checked and weighs 5
C24_Witness ==
    /\ RiskReturned
    /\ \E k \in 1..Len(last.args.medications) :
          /\ "dose" \in DOMAIN last.args.medications[k]
          /\ last.args.medications[k].dose = None
    /\ WeightsWithData(last.args.medications, 1) = <<>>
    /\ "medications_checked" \in DOMAIN DosageFactor.details
    /\ DosageFactor.details.medications_checked >= 1

\* C24 for the prescriptions without a null dose
C24_MeanOverPresentDoses ==
    (/\ RiskReturned
     /\ \A k \in 1..Len(last.args.medications) :
           "dose" \in DOMAIN last.args.medications[k]
             => last.args.medications[k].dose # None) =>
        MeanOfWeights(WeightsWithData(last.args.medications, 1), DosageFactor)


\* The step value of a medication count
StepOfCount(n) ==
    CASE n <= 1 -> 0
      [] n \in 2..4 -> 5
      [] n \in 5..6 -> 25
      [] n \in 7..8 -> 50
      [] OTHER -> 70

\* The step value with the multipliers of the age, in hundredths of hundredths
\* of a point: step * (115 or 100) * (110 or 100), over 10000
WithAgeMultipliers(step, age) ==
    <<step * (IF age > 65 THEN 115 ELSE 100)
           * (IF age > 0 /\ age < 12 THEN 110 ELSE 100), 10000>>

ExpectedPolypharmacy ==
    WithAgeMultipliers(StepOfCount(Len(last.args.medications)),
                       PatientAge(last.args.patient_info))

\* C25: the polypharmacy sub-score is the step value of the medication count
\* (0 up to 1, 5 up to 4, 25 up to 6, 50 up to 8, 70 above), multiplied by
\* 1.15 when age > 65 and by 1.10 when 0 < age < 12, and never exceeds 100;
\* predict_risk reports a tenth of it, rounded to one decimal.
C25_PolypharmacyStep ==
    RiskReturned =>
        /\ RLe(ExpectedPolypharmacy, R(100))
        /\ last.result.factors.polypharmacy_risk.score
             \in RoundTo(RDiv(ExpectedPolypharmacy, R(10)), 10)

\* Nine medications for a patient aged 70: 70 * 1.15 = 80.5, reported as 8.0
\* or 8.1
C25_Witness ==
    /\ RiskReturned
    /\ Len(last.args.medications) = 9
    /\ PatientAge(last.args.patient_info) = 70
    /\ ExpectedPolypharmacy = <<805000, 10000>>
    /\ last.result.factors.polypharmacy_risk.score \in {80, 81}


NoMajorIssues == <<"No major issues identified">>

\* The conditions of generate_recommendations that fired in the last call of
\* predict_risk, read from the factors of its result
InteractionFired ==
    /\ "total_interactions" \in DOMAIN last.result.factors.interaction_risk.details
    /\ last.result.factors.interaction_risk.details.total_interactions > 0

MajorFired ==
    /\ InteractionFired
    /\ last.result.factors.interaction_risk.details.max_severity = "Major"

DosageIssuesFired ==
    IF "issues" \in DOMAIN DosageFactor.details
    THEN Len(DosageFactor.details.issues) ELSE 0

CountFired ==
    /\ "medication_count" \in DOMAIN last.result.factors.polypharmacy_risk.details
    /\ last.result.factors.polypharmacy_risk.details.medication_count > 4

GeriatricFired == PatientAge(last.args.patient_info) > 65

PediatricFired ==
    PatientAge(last.args.patient_info) > 0 /\ PatientAge(last.args.patient_info) < 12

One(condition) == IF condition THEN 1 ELSE 0

\* The number of strings when the interaction condition appends perMajor
\* strings for a Major severity and every other condition one
StringsFired(perMajor) ==
    (IF MajorFired THEN perMajor ELSE One(InteractionFired))
    + DosageIssuesFired + One(CountFired) + One(GeriatricFired)
    + One(PediatricFired)

Recommended(expected, recommendations) ==
    /\ recommendations # <<>>
    /\ IF expected = 0 THEN recommendations = <<NoMajorIssues>>
       ELSE /\ Len(recommendations) = expected
            /\ \A k \in 1..Len(recommendations) : recommendations[k] # NoMajorIssues

EngineMemo ==
    [df |-> interactions_df, index |-> interactions_index,
     atc_df |-> atc_ddd_df, age_df |-> age_specific_df]

\* What a caller compares: whether the call raised, and risk_score,
\* risk_level and recommendations of the result
Verdict(o) ==
    IF o.raised THEN <<"raised">>
    ELSE <<"returned", o.result.risk_score, o.result.risk_level,
           o.result.recommendations>>

\* Lines 77-134 (the general path) applied to the medications of the last call
GeneralPath ==
    GeneralFrom(EngineMemo, EngineFiles,
        check_interactions(interactions_df, interactions_index, interactions_file,
            [k \in 1..Len(last.args.medications) |->
                last.args.medications[k].name]),
        last.args.medications, last.args.patient_info)

LastVerdict ==
    IF last.outcome = "raised" THEN <<"raised">>
    ELSE <<"returned", last.result.risk_score, last.result.risk_level,
           last.result.recommendations>>

SingleCall == last.op = "predict_risk" /\ Len(last.args.medications) = 1

\* C27: for a list of exactly one medication predict_risk returns the
\* risk_score, risk_level and recommendations the general path (0.6 *
\* interaction + 0.3 * dosage + 0.1 * polypharmacy, with interaction and
\* polypharmacy 0) gives for it, for every age and dosage status.
C27_ShortcutIsGeneral ==
    SingleCall =>
        /\ LastVerdict \in {Verdict(o) : o \in GeneralPath}
        /\ {Verdict(o) : o \in predict_risk(EngineMemo, EngineFiles,
                                            last.args.medications,
                                            last.args.patient_info)}
             = {Verdict(o) : o \in GeneralPath}

\* A single very_high dose for a patient aged 66 has been scored
C27_Witness ==
    /\ SingleCall
    /\ last.outcome = "returned"
    /\ PatientAge(last.args.patient_info) = 66
    /\ DosageIssuesFired = 1
    /\ DosageFactor.details.issues[1].status = "very_high"
    /\ last.result.risk_score < 100


\* C28: predict_risk returns a risk_score of at least 2.1 and never the
\* risk_level CRITICAL: the interaction sub-score is at most 80, the dosage
\* sub-score at most 75 and the polypharmacy sub-score at most 80.5 (reported
\* as 8.0, 7.5 and 8.0 or 8.1), so the aggregate danger is at most 78.55.
C28_NeverCritical ==
    RiskReturned =>
        /\ last.result.risk_score >= 21
        /\ last.result.risk_level # "CRITICAL"
        /\ last.result.factors.interaction_risk.score <= 80
        /\ last.result.factors.dosage_risk.score <= 75
        /\ last.result.factors.polypharmacy_risk.score <= 81

\* The worst case has been scored: a Major interaction alone, every dose
\* very_high, nine medications for a patient aged 70
C28_Witness ==
    /\ RiskReturned
    /\ last.result.factors.interaction_risk.score = 80
    /\ last.result.factors.dosage_risk.score = 75
    /\ last.result.factors.polypharmacy_risk.score \in {80, 81}
    /\ last.result.risk_score = 21
    /\ last.result.risk_level = "HIGH RISK"


AgeAbsent == "patient_age" \notin DOMAIN last.args.patient_info

\* A verified dose is reported and escalated as for an infant
TreatedAsInfant(q, result) ==
    /\ result.age_group = "Infant"
    /\ RLt(R(1), q) =>
          result.status = (IF RLe(q, <<3, 2>>) THEN "high" ELSE "very_high")

\* Neither the pediatric multiplier nor the pediatric recommendation
NotTreatedAsPediatric(result, n) ==
    /\ result.factors.polypharmacy_risk.score \in RoundTo(<<StepOfCount(n), 10>>, 10)
    /\ \A k \in 1..Len(result.recommendations) :
          result.recommendations[k] # <<"Pediatric patient">>
    /\ result.patient_context.age_group = "Infant"

\* C29: an absent patient_age counts as 0: dosage verification reports the
\* age group Infant and escalates a ratio above 1.0 to high or very_high,
\* while the polypharmacy sub-score is not multiplied by 1.10 and the
\* pediatric recommendation is not given (both need 0 < age < 12).
C29_AbsentAgeIsZero ==
    /\ (VerifiedDose /\ AgeAbsent) => TreatedAsInfant(LastRatio, last.result)
    /\ (RiskReturned /\ AgeAbsent) =>
          NotTreatedAsPediatric(last.result, Len(last.args.medications))

\* With the age absent, a dose at ratio 1.5 has been verified as high for an
\* infant
C29_Witness ==
    /\ VerifiedDose
    /\ AgeAbsent
    /\ REqual(LastRatio, <<3, 2>>)
    /\ last.result.age_group = "Infant"
    /\ last.result.status = "high"

\* With the age absent, nine medications have been scored at the plain step
C29_WitnessRisk ==
    /\ RiskReturned
    /\ AgeAbsent
    /\ Len(last.args.medications) = 9
    /\ last.result.factors.polypharmacy_risk.score = 70
    /\ DosageIssuesFired >= 1


\* The prescription of the last call without the medication added last
Front(s) == SubSeq(s, 1, Len(s) - 1)

\* What predict_risk gives for the shorter prescription, same patient, same
\* tables
BeforeAdding ==
    predict_risk(EngineMemo, EngineFiles, Front(last.args.medications),
                 last.args.patient_info)

\* The last call scored a prescription made of at least two medications and
\* one more, and the shorter prescription is scored too
OneMoreMedication ==
    /\ RiskReturned
    /\ Len(last.args.medications) >= 3
    /\ \A o \in BeforeAdding : ~o.raised

\* C30: adding one more medication to a prescription of at least two
\* medications, for the same patient and the same tables, never raises the
\* safety score (risk_score) that predict_risk returns.
C30_OneMoreNeverSafer ==
    OneMoreMedication =>
        \E o \in BeforeAdding : last.result.risk_score <= o.result.risk_score

\* A third medication of unknown dosage status has been added to a safe and
\* a very high dose, and the prescription of three is scored safer
C30_Witness ==
    /\ OneMoreMedication
    /\ Len(last.args.medications) = 3
    /\ \A o \in BeforeAdding : last.result.risk_score > o.result.risk_score
    /\ \A o \in BeforeAdding :
          last.result.factors.dosage_risk.score < o.result.factors.dosage_risk.score

============================================================================
